---------------------------- MODULE Spec2Model ----------------------------
(***************************************************************************)
(* Model of byod_security_check.py: the Google sign-in that precedes the   *)
(* checks (the wait loop and the callback listener), the SecurityChecker   *)
(* compliance probes (firewall, disk encryption, autolock, guest accounts) *)
(* on darwin, windows, linux and unsupported platforms, run_all_checks,    *)
(* display_results and send_to_n8n.                                        *)
(*                                                                         *)
(* Text is modelled as a sequence of tokens.  A token is a word, a decimal *)
(* numeral, a "0x..." hexadecimal literal, a "key=digits" pair or a line   *)
(* break.  Python's `in`, str.strip, str.lower, str.split, re.search and   *)
(* int() are operators over such sequences.                                *)
(***************************************************************************)
EXTENDS Integers, Sequences, FiniteSets, TLC

(***************************************************************************)
(* Bounds of the model.                                                    *)
(***************************************************************************)
\* numeric readings are drawn from threshold-MaxDelta .. threshold+MaxDelta
MaxDelta == 1
\* number of hexadecimal digits powercfg prints for a setting index
MaxHexLen == 3
\* one-second waits of the sign-in loop before it gives up (300 in the source)
MaxWait == 2
\* POSTs to /auth-complete during one sign-in
MaxPosts == 2

(***************************************************************************)
(* Tokens.                                                                 *)
(***************************************************************************)
W(s) == [k |-> "w", s |-> s, n |-> 0, d |-> <<>>]
N(n) == [k |-> "n", s |-> "", n |-> n, d |-> <<>>]
X(d) == [k |-> "x", s |-> "0x", n |-> 0, d |-> d]
KV(s, n) == [k |-> "kv", s |-> s, n |-> n, d |-> <<>>]
NL == [k |-> "nl", s |-> "", n |-> 0, d |-> <<>>]

\* pairs <<t, m>>: the word t has the shorter word m as a substring
SubstringPairs ==
    { <<"crypto_LUKS", "crypt">>, <<"/dev/mapper/root", "/dev/mapper/">>,
      <<"dm-0", "dm-">>, <<"/usr/sbin/nologin", "/sbin/nologin">>,
      <<"/usr/bin/false", "/bin/false">>,
      <<"None", "No">>, <<"Guests", "Guest">> }

\* pairs <<t, m>>: the word t begins with the shorter word m
PrefixPairs ==
    { <<"!$6$hash", "!">>, <<"!!", "!">>, <<"*LK*", "*">>, <<"On.", "On">> }

\* str.lower on one word
LowerWord(s) ==
    CASE s = "True" -> "true"
      [] s = "TRUE" -> "true"
      [] s = "False" -> "false"
      [] s = "Running" -> "running"
      [] s = "SaaS.Group" -> "saas.group"
      [] OTHER -> s

\* str.lower()
lower(out) == [i \in 1..Len(out) |-> [out[i] EXCEPT !.s = LowerWord(out[i].s)]]

\* the text of token t has the single word m as a substring
TokHas(t, m) ==
    \/ t.k = "w" /\ (t.s = m \/ <<t.s, m>> \in SubstringPairs)
    \/ t.k = "kv" /\ t.s = m

\* `marker in out` for a marker that is a sequence of words
Contains(out, marker) ==
    IF Len(marker) = 1
    THEN \E i \in 1..Len(out) : TokHas(out[i], marker[1])
    ELSE \E i \in 1..(Len(out) - Len(marker) + 1) :
            /\ \A j \in 1..(Len(marker) - 1) : out[i + j - 1] = W(marker[j])
            /\ LET t == out[i + Len(marker) - 1]
                   m == marker[Len(marker)]
               IN  t.k = "w" /\ (t.s = m \/ <<t.s, m>> \in PrefixPairs)

\* out.count(word): non-overlapping occurrences of a single word
Count(out, m) == Cardinality({i \in 1..Len(out) : TokHas(out[i], m)})

\* str.strip(): drop leading and trailing whitespace (line breaks)
RECURSIVE strip(_)
strip(out) ==
    IF out = <<>> THEN out
    ELSE IF Head(out) = NL THEN strip(Tail(out))
    ELSE IF out[Len(out)] = NL THEN strip(SubSeq(out, 1, Len(out) - 1))
    ELSE out

\* int(text): [ok, v]; ValueError unless the stripped text is one numeral
int(out) ==
    LET s == strip(out)
    IN  IF Len(s) = 1 /\ s[1].k = "n"
        THEN [ok |-> TRUE, v |-> s[1].n]
        ELSE [ok |-> FALSE, v |-> 0]

\* int(digits, 16)
RECURSIVE HexToInt(_)
HexToInt(d) ==
    IF d = <<>> THEN 0
    ELSE 16 * HexToInt(SubSeq(d, 1, Len(d) - 1)) + d[Len(d)]

\* index of the first token at or after i that is not whitespace (0: none)
RECURSIVE SkipWs(_, _)
SkipWs(out, i) ==
    IF i > Len(out) THEN 0
    ELSE IF out[i] = NL THEN SkipWs(out, i + 1)
    ELSE i

\* re.search(r'<words separated by \s+>\s+(\d+)', out): [ok, v], first match
SearchWordsNum(out, ws) ==
    LET Matches(i) ==
            /\ i + Len(ws) <= Len(out)
            /\ \A j \in 1..Len(ws) : out[i + j - 1] = W(ws[j])
            /\ SkipWs(out, i + Len(ws)) # 0
            /\ out[SkipWs(out, i + Len(ws))].k = "n"
            /\ out[SkipWs(out, i + Len(ws))].n >= 0
        hits == {i \in 1..Len(out) : Matches(i)}
    IN  IF hits = {} THEN [ok |-> FALSE, v |-> 0]
        ELSE LET i == CHOOSE x \in hits : \A y \in hits : x <= y
             IN  [ok |-> TRUE, v |-> out[SkipWs(out, i + Len(ws))].n]

\* re.search(r'<words separated by one space> 0x([a-f0-9]+)', out): [ok, d]
SearchWordsHex(out, ws) ==
    LET Matches(i) ==
            /\ i + Len(ws) <= Len(out)
            /\ \A j \in 1..Len(ws) : out[i + j - 1] = W(ws[j])
            /\ out[i + Len(ws)].k = "x"
            /\ out[i + Len(ws)].d # <<>>
        hits == {i \in 1..Len(out) : Matches(i)}
    IN  IF hits = {} THEN [ok |-> FALSE, d |-> <<>>]
        ELSE LET i == CHOOSE x \in hits : \A y \in hits : x <= y
             IN  [ok |-> TRUE, d |-> out[i + Len(ws)].d]

\* re.search(r'<key>(\d+)', out): [ok, v], first match
SearchKeyNum(out, key) ==
    LET hits == {i \in 1..Len(out) : out[i].k = "kv" /\ out[i].s = key /\ out[i].n >= 0}
    IN  IF hits = {} THEN [ok |-> FALSE, v |-> 0]
        ELSE LET i == CHOOSE x \in hits : \A y \in hits : x <= y
             IN  [ok |-> TRUE, v |-> out[i].n]

\* text.split(sep): the fields between occurrences of the separator token
RECURSIVE split(_, _)
split(out, sep) ==
    LET seps == {i \in 1..Len(out) : out[i] = sep}
    IN  IF seps = {} THEN <<out>>
        ELSE LET i == CHOOSE x \in seps : \A y \in seps : x <= y
             IN  <<SubSeq(out, 1, i - 1)>> \o split(SubSeq(out, i + 1, Len(out)), sep)

\* text.startswith(word)
startswith(out, m) ==
    /\ out # <<>>
    /\ out[1].k = "w"
    /\ (out[1].s = m \/ <<out[1].s, m>> \in PrefixPairs)

(***************************************************************************)
(* run_command and what a command can do.                                  *)
(***************************************************************************)
\* timeout=30 of subprocess.run
TimeoutSeconds == 30

Exit(rc, stdout) == [kind |-> "exit", rc |-> rc, stdout |-> stdout]
TimedOut == [kind |-> "timeout", rc |-> 0, stdout |-> <<>>]
OsError == [kind |-> "oserror", rc |-> 0, stdout |-> <<>>]

\* str(e) of subprocess.TimeoutExpired
TimeoutText(cmd) ==
    <<W("Command"), W(cmd), W("timed"), W("out"), W("after"),
      N(TimeoutSeconds), W("seconds")>>

\* mutant of run_command: subprocess.TimeoutExpired is not caught
run_command_raises(cmd, oc) ==
    CASE oc.kind = "exit" ->
            [raised |-> FALSE, success |-> (oc.rc = 0), output |-> strip(oc.stdout)]
      [] OTHER ->
            [raised |-> TRUE, success |-> FALSE, output |-> <<>>]

\* run_command(command): (success, output), or an exception that is neither
\* TimeoutExpired nor SubprocessError and so leaves run_command
run_command(cmd, oc) ==
    CASE oc.kind = "exit" ->
            [raised |-> FALSE, success |-> (oc.rc = 0), output |-> strip(oc.stdout)]
      [] oc.kind = "timeout" ->
            [raised |-> FALSE, success |-> FALSE, output |-> TimeoutText(cmd)]
      [] OTHER ->
            [raised |-> TRUE, success |-> FALSE, output |-> <<>>]

(***************************************************************************)
(* Results, messages, and the outcome of a probe body.                     *)
(***************************************************************************)
Msg(fmt) == [fmt |-> fmt, num |-> <<>>, str |-> <<>>]
MsgN(fmt, n) == [fmt |-> fmt, num |-> <<n>>, str |-> <<>>]
MsgS(fmt, s) == [fmt |-> fmt, num |-> <<>>, str |-> <<s>>]

\* a message is the empty string
IsEmptyMsg(m) == m.fmt = "" /\ m.num = <<>> /\ m.str = <<>>

Result(status, message, remediation) ==
    [status |-> status, message |-> message, remediation |-> remediation]

\* a probe body returned value after running cmds
Ret(value, cmds) == [kind |-> "return", value |-> value, exc |-> "", cmds |-> cmds]
\* a probe body raised exc after running cmds
Raise(exc, cmds) == [kind |-> "raise", value |-> Msg(""), exc |-> exc, cmds |-> cmds]

\* try: body / except Exception as e: return handled
Try(body, handled) ==
    IF body.kind = "raise" THEN Ret(handled, body.cmds) ELSE body

\* the command lines the checks pass to run_command
Cmd ==
    [
      AlfState |->
        "defaults read /Library/Preferences/com.apple.alf globalstate",
      PgrepFw |->
        "pgrep -f \"socketfilterfw\"",
      Netsh |->
        "netsh advfirewall show allprofiles state",
      PsProfile |->
        "powershell -Command \"Get-NetFirewallProfile | Select-Object Name, Enabled\"",
      Ufw |->
        "ufw status",
      Iptables |->
        "iptables -L -n",
      Firewalld |->
        "firewall-cmd --state",
      Fdesetup |->
        "fdesetup status",
      ManageBde |->
        "manage-bde -status",
      Lsblk |->
        "lsblk -o NAME,FSTYPE",
      Mounts |->
        "cat /proc/mounts",
      Dmsetup |->
        "dmsetup table",
      Pmset |->
        "pmset -g",
      IdleTime |->
        "defaults read com.apple.screensaver idleTime",
      RegQuery |->
        "reg query \"HKEY_CURRENT_USER\\Control Panel\\Desktop\" /v ScreenSaveTimeOut",
      Powercfg |->
        "powercfg /query SCHEME_CURRENT SUB_VIDEO VIDEOIDLE",
      GsActivation |->
        "gsettings get org.gnome.desktop.screensaver idle-activation-enabled",
      GsDelay |->
        "gsettings get org.gnome.desktop.screensaver idle-delay",
      DsclRead |->
        "dscl . -read /Users/Guest",
      DsclList |->
        "dscl . -list /Users",
      NetUser |->
        "net user guest",
      GetentPasswd |->
        "getent passwd guest",
      GetentShadow |->
        "getent shadow guest"
    ]

\* the remediation texts of the Results
Rem ==
    [
      MacFirewallOn |->
        "Enable macOS firewall: System Preferences > Security & Privacy > Firewall > Turn On Firewall",
      MacFirewallVerify |->
        "Please manually verify firewall is enabled: System Preferences > Security & Privacy > Firewall",
      WinFirewall |->
        "Enable Windows Defender Firewall: Control Panel > System and Security > Windows Defender Firewall > Turn Windows Defender Firewall on or off",
      UfwEnable |->
        "Enable UFW firewall: Run \"sudo ufw enable\" in terminal",
      Iptables |->
        "Configure iptables firewall: Install and configure UFW (\"sudo apt install ufw && sudo ufw enable\") or set up iptables rules manually",
      FirewalldStart |->
        "Start firewalld: Run \"sudo systemctl start firewalld && sudo systemctl enable firewalld\" in terminal",
      LinuxFirewallInstall |->
        "Install and configure a firewall: For Ubuntu/Debian: \"sudo apt install ufw && sudo ufw enable\", For CentOS/RHEL: \"sudo yum install firewalld && sudo systemctl start firewalld && sudo systemctl enable firewalld\"",
      FileVault |->
        "Enable FileVault encryption: System Preferences > Security & Privacy > FileVault > Turn On FileVault",
      BitLocker |->
        "Enable BitLocker encryption: Control Panel > System and Security > BitLocker Drive Encryption > Turn on BitLocker",
      Luks |->
        "Enable disk encryption: Use LUKS encryption during OS installation or encrypt existing partitions with \"cryptsetup luksFormat /dev/sdX\" (WARNING: This will destroy data - backup first!)",
      MacDisplaySleep |->
        "Set display sleep timeout to 10 minutes or less: System Preferences > Energy Saver > Display Sleep",
      MacScreenSaver |->
        "Set screen saver timeout to 10 minutes or less: System Preferences > Desktop & Screen Saver > Screen Saver > Start after",
      MacLockConfigure |->
        "Configure screen lock timeout: System Preferences > Security & Privacy > General > Require password after sleep or screen saver begins",
      WinScreenSaver |->
        "Set screen lock timeout to 10 minutes or less: Control Panel > Personalization > Screen Saver > Wait",
      WinLockConfigure |->
        "Configure screen lock: Control Panel > Personalization > Screen Saver > Wait (set to 10 minutes or less) and check \"On resume, display logon screen\"",
      GnomeDelay |->
        "Set screen lock timeout to 10 minutes or less: Settings > Privacy > Screen Lock > Blank screen delay",
      KdeDelay |->
        "Set screen lock timeout to 10 minutes or less: System Settings > Desktop Behavior > Screen Locking > Lock screen automatically after",
      LinuxLockConfigure |->
        "Configure screen lock: For GNOME: Settings > Privacy > Screen Lock, For KDE: System Settings > Desktop Behavior > Screen Locking",
      MacGuestDisable |->
        "Disable guest account: System Preferences > Users & Groups > Guest User > Allow guests to log in to this computer (uncheck)",
      MacGuestVerify |->
        "Please verify guest account is disabled: System Preferences > Users & Groups > Guest User",
      MacGuestManual |->
        "Please manually verify guest account is disabled: System Preferences > Users & Groups > Guest User",
      WinGuest |->
        "Disable guest account: Run \"net user guest /active:no\" as administrator or Control Panel > User Accounts > Manage another account > Guest > Turn off guest account",
      LinuxGuestLock |->
        "Lock guest account: Run \"sudo usermod -L guest\" or \"sudo passwd -l guest\" to lock the account",
      LinuxGuestVerify |->
        "Please verify guest account is locked: Run \"sudo passwd -S guest\" to check status",
      LinuxGuestManual |->
        "Please manually verify no guest accounts exist or are locked"
    ]

(***************************************************************************)
(* Firewall probes.                                                        *)
(***************************************************************************)

\* mutant of MacFirewallState: only state 1 counts as enabled
MacFirewallState_strict(state) ==
    IF state = 1
    THEN Result(TRUE, Msg("macOS firewall is enabled"), "")
    ELSE Result(FALSE, Msg("macOS firewall is disabled"), Rem.MacFirewallOn)

\* the verdict for a numeric global state
MacFirewallState(state) ==
    IF state = 1
    THEN Result(TRUE, Msg("macOS firewall is enabled"), "")
    ELSE IF state = 2
    THEN Result(TRUE, Msg("macOS firewall is enabled (strict mode)"), "")
    ELSE Result(FALSE, Msg("macOS firewall is disabled"), Rem.MacFirewallOn)

_check_macos_firewall_body(env) ==
    LET r1 == run_command(Cmd.AlfState, env[Cmd.AlfState])
        state == int(strip(r1.output))
        r2 == run_command(Cmd.PgrepFw, env[Cmd.PgrepFw])
        both == <<Cmd.AlfState, Cmd.PgrepFw>>
    IN  IF r1.raised THEN Raise("OSError", <<Cmd.AlfState>>)
        ELSE IF r1.success /\ state.ok
        THEN Ret(MacFirewallState(state.v), <<Cmd.AlfState>>)
        ELSE IF r2.raised THEN Raise("OSError", both)
        ELSE IF r2.success /\ strip(r2.output) # <<>>
        THEN Ret(Result(TRUE, Msg("macOS firewall appears to be running"), ""), both)
        ELSE Ret(Result(FALSE,
                        Msg("Unable to verify firewall status (insufficient permissions)"),
                        Rem.MacFirewallVerify), both)

_check_macos_firewall_except(e) ==
    Result(FALSE, MsgS("Unable to check firewall status: {}", e), Rem.MacFirewallVerify)

_check_macos_firewall(env) ==
    LET body == _check_macos_firewall_body(env)
    IN  Try(body, _check_macos_firewall_except(body.exc))

\* 'X Profile' in output and 'State' in output and 'ON' in output
WinProfileEnabled(output, profile) ==
    /\ Contains(output, <<profile, "Profile">>)
    /\ Contains(output, <<"State">>)
    /\ Contains(output, <<"ON">>)

\* ', '.join(disabled_profiles)
WinDisabledProfiles(output) ==
    LET d == IF WinProfileEnabled(output, "Domain") THEN <<>> ELSE <<"Domain">>
        p == IF WinProfileEnabled(output, "Private") THEN <<>> ELSE <<"Private">>
        u == IF WinProfileEnabled(output, "Public") THEN <<>> ELSE <<"Public">>
    IN  d \o p \o u

\* enabled_count >= 3
PsEnabledEnough(output) == Count(output, "True") >= 3

_check_windows_firewall_body(env) ==
    LET r1 == run_command(Cmd.Netsh, env[Cmd.Netsh])
        r2 == run_command(Cmd.PsProfile, env[Cmd.PsProfile])
        both == <<Cmd.Netsh, Cmd.PsProfile>>
    IN  IF r1.raised THEN Raise("OSError", <<Cmd.Netsh>>)
        ELSE IF r1.success
        THEN IF /\ WinProfileEnabled(r1.output, "Domain")
                /\ WinProfileEnabled(r1.output, "Private")
                /\ WinProfileEnabled(r1.output, "Public")
             THEN Ret(Result(TRUE,
                             Msg("Windows Defender Firewall is enabled for all profiles"),
                             ""), <<Cmd.Netsh>>)
             ELSE Ret(Result(FALSE,
                             [fmt |-> "Windows Defender Firewall is disabled for: {}",
                              num |-> <<>>, str |-> WinDisabledProfiles(r1.output)],
                             Rem.WinFirewall), <<Cmd.Netsh>>)
        ELSE IF r2.raised THEN Raise("OSError", both)
        ELSE IF r2.success
        THEN IF PsEnabledEnough(r2.output)
             THEN Ret(Result(TRUE, Msg("Windows Defender Firewall is enabled"), ""), both)
             ELSE Ret(Result(FALSE, Msg("Windows Defender Firewall is not fully enabled"),
                             Rem.WinFirewall), both)
        ELSE Ret(Result(FALSE, Msg("Unable to check firewall status"), Rem.WinFirewall),
                 both)

_check_windows_firewall_except(e) ==
    Result(FALSE, MsgS("Error checking firewall: {}", e), Rem.WinFirewall)

_check_windows_firewall(env) ==
    LET body == _check_windows_firewall_body(env)
    IN  Try(body, _check_windows_firewall_except(body.exc))

\* output.strip().split('\n')
Lines(output) == split(strip(output), NL)

\* mutant of IptablesRuleCount: header lines are counted as rules
IptablesRuleCount_headers(output) ==
    LET lines == Lines(output)
    IN  Cardinality({i \in 1..Len(lines) : strip(lines[i]) # <<>>})

\* the lines that are neither blank nor a chain or column header
IptablesRuleCount(output) ==
    LET lines == Lines(output)
    IN  Cardinality({i \in 1..Len(lines) :
                        /\ strip(lines[i]) # <<>>
                        /\ ~startswith(lines[i], "Chain")
                        /\ ~startswith(lines[i], "target")})

_check_linux_firewall_body(env) ==
    LET r1 == run_command(Cmd.Ufw, env[Cmd.Ufw])
        r2 == run_command(Cmd.Iptables, env[Cmd.Iptables])
        r3 == run_command(Cmd.Firewalld, env[Cmd.Firewalld])
        two == <<Cmd.Ufw, Cmd.Iptables>>
        three == <<Cmd.Ufw, Cmd.Iptables, Cmd.Firewalld>>
    IN  IF r1.raised THEN Raise("OSError", <<Cmd.Ufw>>)
        ELSE IF r1.success /\ Contains(r1.output, <<"Status:", "active">>)
        THEN Ret(Result(TRUE, Msg("UFW firewall is active"), ""), <<Cmd.Ufw>>)
        ELSE IF r1.success /\ Contains(r1.output, <<"Status:", "inactive">>)
        THEN Ret(Result(FALSE, Msg("UFW firewall is inactive"), Rem.UfwEnable), <<Cmd.Ufw>>)
        ELSE IF r2.raised THEN Raise("OSError", two)
        ELSE IF r2.success
        THEN IF IptablesRuleCount(r2.output) > 0
             THEN Ret(Result(TRUE, Msg("iptables firewall rules are configured"), ""), two)
             ELSE Ret(Result(FALSE, Msg("No iptables firewall rules found"), Rem.Iptables),
                      two)
        ELSE IF r3.raised THEN Raise("OSError", three)
        ELSE IF r3.success
        THEN IF Contains(lower(r3.output), <<"running">>)
             THEN Ret(Result(TRUE, Msg("firewalld is running"), ""), three)
             ELSE Ret(Result(FALSE, Msg("firewalld is not running"), Rem.FirewalldStart),
                      three)
        ELSE Ret(Result(FALSE, Msg("No firewall found or unable to check status"),
                        Rem.LinuxFirewallInstall), three)

_check_linux_firewall_except(e) ==
    Result(FALSE, MsgS("Error checking firewall: {}", e), Rem.LinuxFirewallInstall)

_check_linux_firewall(env) ==
    LET body == _check_linux_firewall_body(env)
    IN  Try(body, _check_linux_firewall_except(body.exc))

(***************************************************************************)
(* Disk encryption probes.                                                 *)
(***************************************************************************)

_check_macos_encryption_body(env) ==
    LET r1 == run_command(Cmd.Fdesetup, env[Cmd.Fdesetup])
    IN  IF r1.raised THEN Raise("OSError", <<Cmd.Fdesetup>>)
        ELSE IF r1.success /\ Contains(r1.output, <<"FileVault", "is", "On">>)
        THEN Ret(Result(TRUE, Msg("FileVault encryption is enabled"), ""), <<Cmd.Fdesetup>>)
        ELSE Ret(Result(FALSE, Msg("FileVault encryption is not enabled"), Rem.FileVault),
                 <<Cmd.Fdesetup>>)

_check_macos_encryption_except(e) ==
    Result(FALSE, MsgS("Error checking encryption: {}", e), Rem.FileVault)

\* mutant of _check_macos_encryption: 'success or marker' for 'success and marker'
_check_macos_encryption_or(env) ==
    LET r1 == run_command(Cmd.Fdesetup, env[Cmd.Fdesetup])
    IN  IF r1.raised
        THEN Ret(_check_macos_encryption_except("OSError"), <<Cmd.Fdesetup>>)
        ELSE IF r1.success \/ Contains(r1.output, <<"FileVault", "is", "On">>)
        THEN Ret(Result(TRUE, Msg("FileVault encryption is enabled"), ""), <<Cmd.Fdesetup>>)
        ELSE Ret(Result(FALSE, Msg("FileVault encryption is not enabled"), Rem.FileVault),
                 <<Cmd.Fdesetup>>)

_check_macos_encryption(env) ==
    LET body == _check_macos_encryption_body(env)
    IN  Try(body, _check_macos_encryption_except(body.exc))

_check_windows_encryption_body(env) ==
    LET r1 == run_command(Cmd.ManageBde, env[Cmd.ManageBde])
    IN  IF r1.raised THEN Raise("OSError", <<Cmd.ManageBde>>)
        ELSE IF r1.success
        THEN IF Contains(r1.output, <<"Protection", "On">>)
             THEN Ret(Result(TRUE, Msg("BitLocker encryption is enabled"), ""),
                      <<Cmd.ManageBde>>)
             ELSE Ret(Result(FALSE, Msg("BitLocker encryption is not enabled"),
                             Rem.BitLocker), <<Cmd.ManageBde>>)
        ELSE Ret(Result(FALSE, Msg("Unable to check BitLocker status"), Rem.BitLocker),
                 <<Cmd.ManageBde>>)

_check_windows_encryption_except(e) ==
    Result(FALSE, MsgS("Error checking encryption: {}", e), Rem.BitLocker)

_check_windows_encryption(env) ==
    LET body == _check_windows_encryption_body(env)
    IN  Try(body, _check_windows_encryption_except(body.exc))

_check_linux_encryption_body(env) ==
    LET r1 == run_command(Cmd.Lsblk, env[Cmd.Lsblk])
        r2 == run_command(Cmd.Mounts, env[Cmd.Mounts])
        r3 == run_command(Cmd.Dmsetup, env[Cmd.Dmsetup])
        two == <<Cmd.Lsblk, Cmd.Mounts>>
        three == <<Cmd.Lsblk, Cmd.Mounts, Cmd.Dmsetup>>
        none == Result(FALSE, Msg("No disk encryption detected"), Rem.Luks)
    IN  IF r1.raised THEN Raise("OSError", <<Cmd.Lsblk>>)
        ELSE IF r1.success /\ Contains(r1.output, <<"crypto_LUKS">>)
        THEN Ret(Result(TRUE, Msg("LUKS encryption detected"), ""), <<Cmd.Lsblk>>)
        ELSE IF r2.raised THEN Raise("OSError", two)
        ELSE IF r2.success /\ (\/ Contains(r2.output, <<"/dev/mapper/">>)
                               \/ Contains(r2.output, <<"dm-">>))
        THEN IF r3.raised THEN Raise("OSError", three)
             ELSE IF r3.success /\ Contains(r3.output, <<"crypt">>)
             THEN Ret(Result(TRUE, Msg("Disk encryption detected"), ""), three)
             ELSE Ret(none, three)
        ELSE Ret(none, two)

_check_linux_encryption_except(e) ==
    Result(FALSE, MsgS("Error checking encryption: {}", e), Rem.Luks)

\* mutant of _check_linux_encryption: a device-mapper path among the mounts
\* is taken as encryption without asking dmsetup
_check_linux_encryption_mounts(env) ==
    LET r1 == run_command(Cmd.Lsblk, env[Cmd.Lsblk])
        r2 == run_command(Cmd.Mounts, env[Cmd.Mounts])
        two == <<Cmd.Lsblk, Cmd.Mounts>>
    IN  IF r1.raised THEN Ret(_check_linux_encryption_except("OSError"), <<Cmd.Lsblk>>)
        ELSE IF r1.success /\ Contains(r1.output, <<"crypto_LUKS">>)
        THEN Ret(Result(TRUE, Msg("LUKS encryption detected"), ""), <<Cmd.Lsblk>>)
        ELSE IF r2.raised THEN Ret(_check_linux_encryption_except("OSError"), two)
        ELSE IF r2.success /\ (\/ Contains(r2.output, <<"/dev/mapper/">>)
                               \/ Contains(r2.output, <<"dm-">>))
        THEN Ret(Result(TRUE, Msg("Disk encryption detected"), ""), two)
        ELSE Ret(Result(FALSE, Msg("No disk encryption detected"), Rem.Luks), two)

_check_linux_encryption(env) ==
    LET body == _check_linux_encryption_body(env)
    IN  Try(body, _check_linux_encryption_except(body.exc))

(***************************************************************************)
(* Autolock probes.                                                        *)
(***************************************************************************)
\* os.path.expanduser('~/.config/kscreenlockerrc'): a file, not a command
KdeConfig == "~/.config/kscreenlockerrc"

\* the autolock limit: 10 minutes, 600 seconds
LimitMinutes == 10
LimitSeconds == 600

\* mutant of Minutes: rounds up
Minutes_ceil(seconds) == (seconds + 59) \div 60

\* seconds // 60
Minutes(seconds) == seconds \div 60

\* display_sleep <= 10
MacDisplaySleepOk(display_sleep) == display_sleep <= LimitMinutes

\* the verdict for a displaysleep value, in minutes
MacDisplaySleepResult(display_sleep) ==
    IF MacDisplaySleepOk(display_sleep)
    THEN Result(TRUE, MsgN("Display sleep timeout: {} minutes", display_sleep), "")
    ELSE Result(FALSE, MsgN("Display sleep timeout too long: {} minutes", display_sleep),
                Rem.MacDisplaySleep)

\* idle_time <= 600
MacIdleTimeOk(idle_time) == idle_time <= LimitSeconds

\* the verdict for a screensaver idleTime, in seconds
MacIdleTimeResult(idle_time) ==
    IF MacIdleTimeOk(idle_time)
    THEN Result(TRUE, MsgN("Screen saver timeout: {} minutes", Minutes(idle_time)), "")
    ELSE Result(FALSE, MsgN("Screen saver timeout too long: {} minutes", Minutes(idle_time)),
                Rem.MacScreenSaver)

_check_macos_autolock_body(env) ==
    LET r1 == run_command(Cmd.Pmset, env[Cmd.Pmset])
        display_sleep_match == SearchWordsNum(r1.output, <<"displaysleep">>)
        r2 == run_command(Cmd.IdleTime, env[Cmd.IdleTime])
        idle_time == int(r2.output)
        both == <<Cmd.Pmset, Cmd.IdleTime>>
    IN  IF r1.raised THEN Raise("OSError", <<Cmd.Pmset>>)
        ELSE IF r1.success /\ display_sleep_match.ok
        THEN Ret(MacDisplaySleepResult(display_sleep_match.v), <<Cmd.Pmset>>)
        ELSE IF r2.raised THEN Raise("OSError", both)
        ELSE IF r2.success
        THEN IF idle_time.ok
             THEN Ret(MacIdleTimeResult(idle_time.v), both)
             ELSE Raise("ValueError", both)
        ELSE Ret(Result(FALSE, Msg("Unable to determine screen lock timeout"),
                        Rem.MacLockConfigure), both)

_check_macos_autolock_except(e) ==
    Result(FALSE, MsgS("Error checking autolock: {}", e), Rem.MacLockConfigure)

_check_macos_autolock(env) ==
    LET body == _check_macos_autolock_body(env)
    IN  Try(body, _check_macos_autolock_except(body.exc))

\* timeout <= 600 for the registry screen-saver timeout
WinScreenSaveOk(timeout) == timeout <= LimitSeconds

\* the verdict for a ScreenSaveTimeOut value, in seconds
WinScreenSaveResult(timeout) ==
    IF WinScreenSaveOk(timeout)
    THEN Result(TRUE, MsgN("Screen lock timeout: {} minutes", Minutes(timeout)), "")
    ELSE Result(FALSE, MsgN("Screen lock timeout too long: {} minutes", Minutes(timeout)),
                Rem.WinScreenSaver)

\* mutant of WinVideoIdleOk: zero is not excluded
WinVideoIdleOk_zero(timeout) == timeout <= LimitSeconds

\* timeout > 0 and timeout <= 600 for the video-idle power setting
WinVideoIdleOk(timeout) == timeout > 0 /\ timeout <= LimitSeconds

_check_windows_autolock_body(env) ==
    LET r1 == run_command(Cmd.RegQuery, env[Cmd.RegQuery])
        m1 == SearchWordsNum(r1.output, <<"ScreenSaveTimeOut", "REG_SZ">>)
        r2 == run_command(Cmd.Powercfg, env[Cmd.Powercfg])
        m2 == SearchWordsHex(r2.output,
                             <<"Current", "AC", "Power", "Setting", "Index:">>)
        timeout == HexToInt(m2.d)
        both == <<Cmd.RegQuery, Cmd.Powercfg>>
    IN  IF r1.raised THEN Raise("OSError", <<Cmd.RegQuery>>)
        ELSE IF r1.success /\ m1.ok
        THEN Ret(WinScreenSaveResult(m1.v), <<Cmd.RegQuery>>)
        ELSE IF r2.raised THEN Raise("OSError", both)
        ELSE IF r2.success /\ m2.ok /\ WinVideoIdleOk(timeout)
        THEN Ret(Result(TRUE, MsgN("Display timeout: {} minutes", Minutes(timeout)), ""),
                 both)
        ELSE Ret(Result(FALSE, Msg("Screen lock not configured properly"),
                        Rem.WinLockConfigure), both)

_check_windows_autolock_except(e) ==
    Result(FALSE, MsgS("Error checking autolock: {}", e), Rem.WinLockConfigure)

_check_windows_autolock(env) ==
    LET body == _check_windows_autolock_body(env)
    IN  Try(body, _check_windows_autolock_except(body.exc))

\* mutant of GnomeIdleDelayOk: the whole minutes are compared with the limit
GnomeIdleDelayOk_minutes(timeout) == timeout \div 60 <= LimitMinutes

\* timeout <= 600 for the GNOME idle delay
GnomeIdleDelayOk(timeout) == timeout <= LimitSeconds

\* the verdict for a GNOME idle-delay, in seconds
GnomeIdleDelayResult(timeout) ==
    IF GnomeIdleDelayOk(timeout)
    THEN Result(TRUE, MsgN("Screen lock timeout: {} minutes", Minutes(timeout)), "")
    ELSE Result(FALSE, MsgN("Screen lock timeout too long: {} minutes", Minutes(timeout)),
                Rem.GnomeDelay)

\* mutant of KdeTimeoutOk: the minutes are compared with the limit in seconds
KdeTimeoutOk_seconds(timeout) == timeout <= LimitSeconds

\* timeout <= 10 for the KDE Timeout, in minutes
KdeTimeoutOk(timeout) == timeout <= LimitMinutes

\* the verdict for a KDE Timeout value
KdeTimeoutResult(timeout) ==
    IF KdeTimeoutOk(timeout)
    THEN Result(TRUE, MsgN("Screen lock timeout: {} minutes", timeout), "")
    ELSE Result(FALSE, MsgN("Screen lock timeout too long: {} minutes", timeout),
                Rem.KdeDelay)

_check_linux_autolock_body(env) ==
    LET r1 == run_command(Cmd.GsActivation, env[Cmd.GsActivation])
        r2 == run_command(Cmd.GsDelay, env[Cmd.GsDelay])
        timeout == int(strip(r2.output))
        kde == env[KdeConfig]
        timeout_match == SearchKeyNum(kde.stdout, "Timeout=")
        enabled == r1.success /\ Contains(lower(r1.output), <<"true">>)
        ran == IF enabled THEN <<Cmd.GsActivation, Cmd.GsDelay>> ELSE <<Cmd.GsActivation>>
    IN  IF r1.raised THEN Raise("OSError", <<Cmd.GsActivation>>)
        ELSE IF enabled /\ r2.raised THEN Raise("OSError", ran)
        ELSE IF enabled /\ r2.success
        THEN IF timeout.ok
             THEN Ret(GnomeIdleDelayResult(timeout.v), ran)
             ELSE Raise("ValueError", ran)
        ELSE IF /\ kde.kind = "file"
                /\ Contains(kde.stdout, <<"Timeout=">>)
                /\ timeout_match.ok
        THEN Ret(KdeTimeoutResult(timeout_match.v), Append(ran, KdeConfig))
        ELSE Ret(Result(FALSE, Msg("Screen lock not configured"), Rem.LinuxLockConfigure),
                 Append(ran, KdeConfig))

_check_linux_autolock_except(e) ==
    Result(FALSE, MsgS("Error checking autolock: {}", e), Rem.LinuxLockConfigure)

_check_linux_autolock(env) ==
    LET body == _check_linux_autolock_body(env)
    IN  Try(body, _check_linux_autolock_except(body.exc))

(***************************************************************************)
(* Guest account probes.                                                   *)
(***************************************************************************)

_check_macos_guest_accounts_body(env) ==
    LET r1 == run_command(Cmd.DsclRead, env[Cmd.DsclRead])
        r2 == run_command(Cmd.DsclList, env[Cmd.DsclList])
        both == <<Cmd.DsclRead, Cmd.DsclList>>
    IN  IF r1.raised THEN Raise("OSError", <<Cmd.DsclRead>>)
        ELSE IF r1.success
        THEN Ret(Result(FALSE, Msg("Guest account is enabled"), Rem.MacGuestDisable),
                 <<Cmd.DsclRead>>)
        ELSE IF r2.raised THEN Raise("OSError", both)
        ELSE IF r2.success /\ Contains(r2.output, <<"Guest">>)
        THEN Ret(Result(FALSE, Msg("Guest account may be enabled"), Rem.MacGuestVerify),
                 both)
        ELSE Ret(Result(TRUE, Msg("Guest account appears to be disabled"), ""), both)

_check_macos_guest_accounts_except(e) ==
    Result(FALSE,
           Msg("Unable to verify guest account status (insufficient permissions)"),
           Rem.MacGuestManual)

\* mutant of _check_macos_guest_accounts: a failed direct lookup is taken as
\* absence without reading the user listing
_check_macos_guest_accounts_nolist(env) ==
    LET r1 == run_command(Cmd.DsclRead, env[Cmd.DsclRead])
    IN  IF r1.raised
        THEN Ret(_check_macos_guest_accounts_except("OSError"), <<Cmd.DsclRead>>)
        ELSE IF r1.success
        THEN Ret(Result(FALSE, Msg("Guest account is enabled"), Rem.MacGuestDisable),
                 <<Cmd.DsclRead>>)
        ELSE Ret(Result(TRUE, Msg("Guest account appears to be disabled"), ""),
                 <<Cmd.DsclRead, Cmd.DsclList>>)

_check_macos_guest_accounts(env) ==
    LET body == _check_macos_guest_accounts_body(env)
    IN  Try(body, _check_macos_guest_accounts_except(body.exc))

\* 'Account active' in output and 'No' in output
WinGuestInactive(output) ==
    Contains(output, <<"Account", "active">>) /\ Contains(output, <<"No">>)

_check_windows_guest_accounts_body(env) ==
    LET r1 == run_command(Cmd.NetUser, env[Cmd.NetUser])
    IN  IF r1.raised THEN Raise("OSError", <<Cmd.NetUser>>)
        ELSE IF r1.success
        THEN IF WinGuestInactive(r1.output)
             THEN Ret(Result(TRUE, Msg("Guest account is disabled"), ""), <<Cmd.NetUser>>)
             ELSE Ret(Result(FALSE, Msg("Guest account is enabled"), Rem.WinGuest),
                      <<Cmd.NetUser>>)
        ELSE Ret(Result(TRUE, Msg("Guest account not found (disabled)"), ""),
                 <<Cmd.NetUser>>)

_check_windows_guest_accounts_except(e) ==
    Result(FALSE, MsgS("Error checking guest accounts: {}", e), Rem.WinGuest)

_check_windows_guest_accounts(env) ==
    LET body == _check_windows_guest_accounts_body(env)
    IN  Try(body, _check_windows_guest_accounts_except(body.exc))

\* mutant of ShadowLocked: only '!' counts as locked
ShadowLocked_bang(field) == startswith(field, "!")

\* the password field starts with '!' or '*'
ShadowLocked(field) == startswith(field, "!") \/ startswith(field, "*")

\* the passwd entry names a disabled login shell
ShellDisabled(output) ==
    \/ Contains(output, <<"/bin/false">>)
    \/ Contains(output, <<"/usr/sbin/nologin">>)
    \/ Contains(output, <<"/sbin/nologin">>)

_check_linux_guest_accounts_body(env) ==
    LET r1 == run_command(Cmd.GetentPasswd, env[Cmd.GetentPasswd])
        r2 == run_command(Cmd.GetentShadow, env[Cmd.GetentShadow])
        fields == split(r2.output, W(":"))
        both == <<Cmd.GetentPasswd, Cmd.GetentShadow>>
    IN  IF r1.raised THEN Raise("OSError", <<Cmd.GetentPasswd>>)
        ELSE IF ~r1.success
        THEN Ret(Result(TRUE, Msg("No guest account found"), ""), <<Cmd.GetentPasswd>>)
        ELSE IF r2.raised THEN Raise("OSError", both)
        ELSE IF r2.success /\ r2.output # <<>>
        THEN IF Len(fields) < 2 THEN Raise("IndexError", both)
             ELSE IF ShadowLocked(fields[2])
             THEN Ret(Result(TRUE, Msg("Guest account is locked"), ""), both)
             ELSE Ret(Result(FALSE, Msg("Guest account is active"), Rem.LinuxGuestLock),
                      both)
        ELSE IF ShellDisabled(r1.output)
        THEN Ret(Result(TRUE, Msg("Guest account has login disabled"), ""), both)
        ELSE Ret(Result(FALSE, Msg("Guest account exists (unable to verify lock status)"),
                        Rem.LinuxGuestVerify), both)

_check_linux_guest_accounts_except(e) ==
    Result(FALSE, MsgS("Unable to verify guest account status: {}", e),
           Rem.LinuxGuestManual)

\* mutant of _check_linux_guest_accounts: no except clause
_check_linux_guest_accounts_noexcept(env) == _check_linux_guest_accounts_body(env)

_check_linux_guest_accounts(env) ==
    LET body == _check_linux_guest_accounts_body(env)
    IN  Try(body, _check_linux_guest_accounts_except(body.exc))

(***************************************************************************)
(* The four checks: dispatch on self.system.                               *)
(***************************************************************************)
\* mutant of UnsupportedResult: an unknown platform passes
UnsupportedResult_passes(system) ==
    [status |-> TRUE, message |-> MsgS("Unsupported platform: {}", system)]

\* return {'status': False, 'message': f'Unsupported platform: {self.system}'}
UnsupportedResult(system) ==
    [status |-> FALSE, message |-> MsgS("Unsupported platform: {}", system)]

check_os_firewall(system, env) ==
    IF system = "darwin" THEN _check_macos_firewall(env)
    ELSE IF system = "windows" THEN _check_windows_firewall(env)
    ELSE IF system = "linux" THEN _check_linux_firewall(env)
    ELSE Ret(UnsupportedResult(system), <<>>)

check_disk_encryption(system, env) ==
    IF system = "darwin" THEN _check_macos_encryption(env)
    ELSE IF system = "windows" THEN _check_windows_encryption(env)
    ELSE IF system = "linux" THEN _check_linux_encryption(env)
    ELSE Ret(UnsupportedResult(system), <<>>)

check_autolock(system, env) ==
    IF system = "darwin" THEN _check_macos_autolock(env)
    ELSE IF system = "windows" THEN _check_windows_autolock(env)
    ELSE IF system = "linux" THEN _check_linux_autolock(env)
    ELSE Ret(UnsupportedResult(system), <<>>)

check_guest_accounts(system, env) ==
    IF system = "darwin" THEN _check_macos_guest_accounts(env)
    ELSE IF system = "windows" THEN _check_windows_guest_accounts(env)
    ELSE IF system = "linux" THEN _check_linux_guest_accounts(env)
    ELSE Ret(UnsupportedResult(system), <<>>)

\* the commands (and the file) a check may consult on a platform
Resources(system, key) ==
    CASE system = "darwin" /\ key = "os_firewall" -> <<Cmd.AlfState, Cmd.PgrepFw>>
      [] system = "windows" /\ key = "os_firewall" -> <<Cmd.Netsh, Cmd.PsProfile>>
      [] system = "linux" /\ key = "os_firewall" -> <<Cmd.Ufw, Cmd.Iptables, Cmd.Firewalld>>
      [] system = "darwin" /\ key = "disk_encryption" -> <<Cmd.Fdesetup>>
      [] system = "windows" /\ key = "disk_encryption" -> <<Cmd.ManageBde>>
      [] system = "linux" /\ key = "disk_encryption" -> <<Cmd.Lsblk, Cmd.Mounts, Cmd.Dmsetup>>
      [] system = "darwin" /\ key = "autolock" -> <<Cmd.Pmset, Cmd.IdleTime>>
      [] system = "windows" /\ key = "autolock" -> <<Cmd.RegQuery, Cmd.Powercfg>>
      [] system = "linux" /\ key = "autolock" -> <<Cmd.GsActivation, Cmd.GsDelay, KdeConfig>>
      [] system = "darwin" /\ key = "guest_accounts" -> <<Cmd.DsclRead, Cmd.DsclList>>
      [] system = "windows" /\ key = "guest_accounts" -> <<Cmd.NetUser>>
      [] system = "linux" /\ key = "guest_accounts" -> <<Cmd.GetentPasswd, Cmd.GetentShadow>>
      [] OTHER -> <<>>

(***************************************************************************)
(* The environment: what each command can print and how it can end.        *)
(***************************************************************************)
Near(t) == (t - MaxDelta)..(t + MaxDelta)
SecondsReadings == Near(LimitSeconds) \cup {0, 900}
MinutesReadings == Near(LimitMinutes) \cup {0, 15}
\* the hexadecimal digits of v, zero-padded to width digits
ToHex(v, width) == [i \in 1..width |-> (v \div (16 ^ (width - i))) % 16]
HexStrings == {ToHex(v, MaxHexLen) : v \in SecondsReadings \cup {1}}
OnOff == {"ON", "OFF"}
TrueFalse == {"True", "False"}

NetshOutput(d, p, u) ==
    <<W("Domain"), W("Profile"), W("Settings:"), NL, W("State"), W(d), NL,
      W("Private"), W("Profile"), W("Settings:"), NL, W("State"), W(p), NL,
      W("Public"), W("Profile"), W("Settings:"), NL, W("State"), W(u), NL, W("Ok.")>>

PsProfileOutput(d, p, u) ==
    <<W("Name"), W("Enabled"), NL, W("Domain"), W(d), NL,
      W("Private"), W(p), NL, W("Public"), W(u)>>

IptablesHeader ==
    <<W("Chain"), W("INPUT"), W("(policy"), W("ACCEPT)"), NL,
      W("target"), W("prot"), W("opt"), W("source"), W("destination"), NL, NL,
      W("Chain"), W("OUTPUT"), W("(policy"), W("ACCEPT)"), NL,
      W("target"), W("prot"), W("opt"), W("source"), W("destination")>>

PasswdEntry(shell) ==
    <<W("guest"), W(":"), W("x"), W(":"), N(1001), W(":"), N(1001), W(":"), W(":"),
      W("/home/guest"), W(":"), W(shell)>>

ShadowEntry(pw) ==
    <<W("guest"), W(":")>> \o pw \o <<W(":"), N(19000), W(":"), N(0)>>

NetUserOutput(active, required) ==
    <<W("User"), W("name"), W("Guest"), NL, W("Account"), W("active"), W(active), NL,
      W("Password"), W("required"), W(required), NL,
      W("The"), W("command"), W("completed"), W("successfully.")>>

\* what a command prints on standard output
Stdouts(cmd) ==
    CASE cmd = Cmd.AlfState -> {<<N(s)>> : s \in 0..3} \cup {<<>>, <<W("garbage")>>}
      [] cmd = Cmd.PgrepFw -> {<<N(321)>>, <<>>}
      [] cmd = Cmd.Netsh ->
            {NetshOutput(d, p, u) : d \in OnOff, p \in OnOff, u \in OnOff}
            \cup {<<>>, <<W("Ok.")>>}
      [] cmd = Cmd.PsProfile ->
            {PsProfileOutput(d, p, u) : d \in TrueFalse, p \in TrueFalse, u \in TrueFalse}
            \cup {<<>>}
      [] cmd = Cmd.Ufw ->
            {<<W("Status:"), W("active")>>, <<W("Status:"), W("inactive")>>,
             <<>>, <<W("garbage")>>}
      [] cmd = Cmd.Iptables ->
            {IptablesHeader,
             IptablesHeader \o <<NL, W("DROP"), W("all"), W("--"), W("0.0.0.0/0")>>,
             IptablesHeader \o <<NL, W("ACCEPT"), W("all"), W("--"), W("0.0.0.0/0")>>,
             <<>>}
      [] cmd = Cmd.Firewalld ->
            {<<W("running")>>, <<W("Running")>>, <<W("not"), W("running")>>, <<W("stopped")>>,
             <<>>}
      [] cmd = Cmd.Fdesetup ->
            {<<W("FileVault"), W("is"), W("On.")>>, <<W("FileVault"), W("is"), W("Off.")>>,
             <<>>}
      [] cmd = Cmd.ManageBde ->
            {<<W("Protection"), W("Status:"), W("Protection"), W("On")>>,
             <<W("Protection"), W("Status:"), W("Protection"), W("Off")>>, <<>>}
      [] cmd = Cmd.Lsblk ->
            {<<W("NAME"), W("FSTYPE"), NL, W("sda1"), W("crypto_LUKS")>>,
             <<W("NAME"), W("FSTYPE"), NL, W("sda1"), W("ext4")>>, <<>>}
      [] cmd = Cmd.Mounts ->
            {<<W("/dev/mapper/root"), W("/"), W("ext4")>>, <<W("dm-0"), W("/"), W("ext4")>>,
             <<W("/dev/sda1"), W("/"), W("ext4")>>, <<>>}
      [] cmd = Cmd.Dmsetup ->
            {<<W("root:"), N(0), N(100), W("crypt"), W("aes")>>,
             <<W("root:"), N(0), N(100), W("linear")>>, <<>>}
      [] cmd = Cmd.Pmset ->
            {<<W("sleep"), N(1), NL, W("displaysleep"), N(m)>> : m \in MinutesReadings}
            \cup {<<W("sleep"), N(1)>>, <<W("displaysleep"), W("never")>>, <<>>}
      [] cmd = Cmd.IdleTime ->
            {<<N(t)>> : t \in SecondsReadings \cup {-60}}
            \cup {<<W("garbage")>>, <<>>}
      [] cmd = Cmd.RegQuery ->
            {<<W("HKEY_CURRENT_USER"), NL, W("ScreenSaveTimeOut"), W("REG_SZ"), N(t)>> :
                t \in SecondsReadings}
            \cup {<<W("HKEY_CURRENT_USER"), NL, W("ScreenSaveTimeOut"), W("REG_SZ")>>, <<>>}
      [] cmd = Cmd.Powercfg ->
            {<<W("Current"), W("AC"), W("Power"), W("Setting"), W("Index:"), X(d)>> :
                d \in HexStrings}
            \cup {<<W("Current"), W("DC"), W("Power"), W("Setting"), W("Index:"),
                    X(<<2>>)>>, <<>>}
      [] cmd = Cmd.GsActivation ->
            {<<W("true")>>, <<W("True")>>, <<W("false")>>, <<>>}
      [] cmd = Cmd.GsDelay ->
            {<<N(t)>> : t \in SecondsReadings}
            \cup {<<W("uint32"), N(t)>> : t \in {300}} \cup {<<>>}
      [] cmd = Cmd.DsclRead -> {<<W("RecordName:"), W("Guest")>>, <<>>}
      [] cmd = Cmd.DsclList ->
            {<<W("root"), NL, W("Guest"), NL, W("alice")>>, <<W("root"), NL, W("alice")>>,
             <<>>}
      [] cmd = Cmd.NetUser ->
            {NetUserOutput(a, r) : a \in {"Yes", "No"}, r \in {"Yes", "No"}} \cup {<<>>}
      [] cmd = Cmd.GetentPasswd ->
            {PasswdEntry(sh) :
                sh \in {"/bin/bash", "/bin/false", "/usr/bin/false", "/usr/sbin/nologin",
                       "/sbin/nologin"}}
      [] cmd = Cmd.GetentShadow ->
            {ShadowEntry(pw) :
                pw \in {<<W("!")>>, <<W("*")>>, <<W("!$6$hash")>>, <<W("$6$hash")>>, <<>>}}
            \cup {<<W("guest")>>, <<>>}
      [] OTHER -> {<<>>}

\* the content of ~/.config/kscreenlockerrc when it can be read
KdeContents ==
    {<<W("[Daemon]"), NL, KV("Timeout=", m)>> : m \in MinutesReadings}
    \cup {<<W("[Daemon]"), NL, W("Timeout=")>>, <<W("[Daemon]"), NL, W("Autolock=true")>>}

\* one output per command that an exit status other than 0 can come with
FailStdouts(cmd) == {<<>>} \cup {CHOOSE o \in Stdouts(cmd) : o # <<>>}

\* every way a command (or the read of the file) can end
Outcomes(cmd) ==
    IF cmd = KdeConfig
    THEN {[kind |-> "file", rc |-> 0, stdout |-> c] : c \in KdeContents}
         \cup {[kind |-> "absent", rc |-> 0, stdout |-> <<>>],
               [kind |-> "unreadable", rc |-> 0, stdout |-> <<>>]}
    ELSE {Exit(0, o) : o \in Stdouts(cmd)}
         \cup {Exit(1, o) : o \in FailStdouts(cmd)}
         \cup {TimedOut, OsError}

\* every assignment of an outcome to each of the resources cs
RECURSIVE Envs(_)
Envs(cs) ==
    IF cs = <<>> THEN {<<>>}
    ELSE {(Head(cs) :> o) @@ f : o \in Outcomes(Head(cs)), f \in Envs(Tail(cs))}

(***************************************************************************)
(* The program: main, SecurityChecker.__init__, run_all_checks,            *)
(* display_results and send_to_n8n.                                        *)
(***************************************************************************)
VARIABLES
    system,      \* self.system = platform.system().lower()
    pc,          \* where run_all_checks stands
    results,     \* self.results
    user_email,  \* the email get_user_email returned
    auth,        \* _authenticate_with_google: its locals, auth_result, the listener
    last,        \* the check that ran last: its return and what it observed
    n8n          \* what send_to_n8n built, requested and returned

vars == <<system, pc, results, user_email, auth, last, n8n>>

Supported == {"darwin", "windows", "linux"}
Platforms == Supported \cup {"freebsd", "sunos", ""}
Keys == {"os_firewall", "disk_encryption", "autolock", "guest_accounts"}
\* self.valid_domains
valid_domains ==
    { "addsearch.co", "addsearch.com", "advancedshippingmanager.com", "beekast.com",
      "crosstalent-rh.fr", "crosstalent.at", "crosstalent.be", "crosstalent.co.uk",
      "crosstalent.com", "crosstalent.de", "crosstalent.eu", "crosstalent.fr",
      "crosstalent.it", "crosstalent.nl", "dashthis.com", "getprerender.com",
      "getrewardful.com", "getscraperapi.com", "getusersnap.com", "gfconsulting.info",
      "git-tower.com", "gominga.com", "infonline.de", "juicer.io",
      "keyword-rank-tracking.com", "keyword.com", "keyword.net", "keyword.org",
      "kingwebmaster.com", "myworks.software", "picdrop.com", "picdrop.de",
      "pipelinecrm.com", "pipelinedeals.com", "pipelinedealsco.com",
      "pipelinesales.com", "prerender.io", "rewardful.com", "rewardful.io",
      "saas.blackfriday", "saas.group", "schumacher.me", "scraperapi.cloud",
      "scraperapi.co", "scraperapi.com", "scraperapi.io", "seobility.net",
      "timebutler.com", "timebutler.de", "tryprerender.com", "tryrewardful.co",
      "tryrewardful.com", "tsventures.io", "userewardful.com", "usersnap.com",
      "zenloop.com" }

\* an email address as text: the words around each '@'
Email(local, domain) == <<W(local), W("@"), W(domain)>>

\* addresses the sign-in page can post to /auth-complete
Emails == {Email("alice", "saas.group"), Email("mallory", "example.org")}

\* validate_email(email)
validate_email(email) ==
    IF email = <<>> \/ ~Contains(email, <<"@">>) THEN FALSE
    ELSE LET domain == lower(split(email, W("@"))[2])
         IN  Len(domain) = 1 /\ domain[1].s \in valid_domains

\* self.results as __init__ leaves it
InitialResults == [k \in Keys |-> Result(FALSE, Msg(""), "")]

NoCheck == [key |-> "none", ret |-> Ret(Result(FALSE, Msg(""), ""), <<>>), obs |-> <<>>]

\* send_to_n8n has not been called
NoSend ==
    [called |-> FALSE, built |-> FALSE, aborted |-> FALSE, payload |-> <<>>,
     flat_params |-> <<>>, requests |-> <<>>, responses |-> <<>>, ret |-> FALSE,
     no_n8n |-> FALSE]

\* max_port_attempts = 10
max_port_attempts == 10

\* what a POST to /auth-complete can carry under 'email': an address, or
\* a value without text ('' or null)
PostedEmails == Emails \cup {<<>>}

\* _authenticate_with_google as it starts: server is not yet assigned,
\* serve_forever has never run, auth_result = {'email': None, 'complete': False}
\* (None, like '', is falsy and is written <<>>)
InitialAuth ==
    [at |-> "setup", server |-> "unbound", serving |-> "never", stop |-> FALSE,
     email |-> <<>>, complete |-> FALSE, writing |-> FALSE, seen |-> <<>>,
     failed_binds |-> 0, waited |-> 0, posts |-> 0]

\* _authenticate_with_google has been left: its locals are gone and the
\* listener no longer serves
AuthOver == [InitialAuth EXCEPT !.at = "over"]

Init ==
    /\ system \in Platforms
    /\ pc = "start"
    /\ results = InitialResults
    /\ user_email = <<>>
    /\ auth = InitialAuth
    /\ last = NoCheck
    /\ n8n = NoSend

\* mutant of Assign: the autolock result is stored under a misspelt key
Assign_misspelt(res, key, value) ==
    LET to == IF key = "autolock" THEN "auto_lock" ELSE key
    IN  [k \in DOMAIN res \cup {to} |-> IF k = to THEN value ELSE res[k]]

\* mutant of Assign: an entry that already holds a report is kept
Assign_keep(res, key, value) ==
    IF key \in DOMAIN res /\ ~IsEmptyMsg(res[key].message) THEN res
    ELSE [k \in DOMAIN res \cup {key} |-> IF k = key THEN value ELSE res[k]]

\* self.results[key] = value
Assign(res, key, value) ==
    [k \in DOMAIN res \cup {key} |-> IF k = key THEN value ELSE res[k]]

\* what a check observed: each resource it consulted, in order, with its outcome
Observed(ret, env) ==
    [i \in 1..Len(ret.cmds) |-> [cmd |-> ret.cmds[i], oc |-> env[ret.cmds[i]]]]

\* _authenticate_with_google is left: by `return email`, or by sys.exit(1)
\* or an exception that main turns into sys.exit(1); the finally clause
\* has run
Leave(next, email) ==
    /\ pc' = next
    /\ user_email' = email
    /\ auth' = AuthOver
    /\ UNCHANGED <<system, results, last, n8n>>

\* the sign-in page is located or written to a temporary file and server
\* is set to None; an exception before that reaches the handler with server
\* unassigned, `if server:` raises again there and in the finally clause,
\* and main ends the program
auth_setup ==
    /\ pc = "start" /\ auth.at = "setup"
    /\ \E failed \in BOOLEAN :
          IF failed THEN Leave("exit", user_email)
          ELSE /\ auth' = [auth EXCEPT !.at = "bind", !.server = "none"]
               /\ UNCHANGED <<system, pc, results, user_email, last, n8n>>

\* for _ in range(max_port_attempts): one attempt to bind port
\* 8080 + failed_binds; after the last failed attempt server is None
\* and sys.exit(1) ends the program.  Once a port is bound its number
\* matters only to the URL the browser is given, and the count is dropped.
auth_bind ==
    /\ pc = "start" /\ auth.at = "bind"
    /\ \E free \in BOOLEAN :
          IF free
          THEN /\ auth' = [auth EXCEPT !.at = "chdir", !.server = "bound",
                                       !.failed_binds = 0]
               /\ UNCHANGED <<system, pc, results, user_email, last, n8n>>
          ELSE IF auth.failed_binds + 1 < max_port_attempts
          THEN /\ auth' = [auth EXCEPT !.failed_binds = @ + 1]
               /\ UNCHANGED <<system, pc, results, user_email, last, n8n>>
          ELSE Leave("exit", user_email)

\* os.getcwd, os.chdir and the start of the serve_forever thread; any of
\* them may raise, which reaches `except Exception` with the server bound
\* and serve_forever not running
auth_start ==
    /\ pc = "start" /\ auth.at = "chdir"
    /\ \E failed \in BOOLEAN :
          auth' = IF failed THEN [auth EXCEPT !.at = "except"]
                  ELSE [auth EXCEPT !.at = "open", !.serving = "running"]
    /\ UNCHANGED <<system, pc, results, user_email, last, n8n>>

\* the prints and webbrowser.open between the thread's start and the wait
\* loop; an exception here reaches `except Exception` while the listener runs
auth_open ==
    /\ pc = "start" /\ auth.at = "open"
    /\ \E failed \in BOOLEAN :
          auth' = [auth EXCEPT !.at = IF failed THEN "except" ELSE "poll"]
    /\ UNCHANGED <<system, pc, results, user_email, last, n8n>>

\* while time.time() - start_time < max_wait_time: the test of
\* auth_result['complete'] and auth_result['email']
auth_poll ==
    /\ pc = "start" /\ auth.at = "poll"
    /\ auth' = IF auth.waited >= MaxWait THEN [auth EXCEPT !.at = "timeout"]
               ELSE IF auth.complete /\ auth.email # <<>>
               THEN [auth EXCEPT !.at = "found", !.seen = auth.email]
               ELSE [auth EXCEPT !.at = "sleep"]
    /\ UNCHANGED <<system, pc, results, user_email, last, n8n>>

\* time.sleep(1), or the KeyboardInterrupt that breaks out of the loop
auth_sleep ==
    /\ pc = "start" /\ auth.at = "sleep"
    /\ \E cancelled \in BOOLEAN :
          auth' = IF cancelled THEN [auth EXCEPT !.at = "timeout"]
                  ELSE [auth EXCEPT !.at = "poll", !.waited = @ + 1]
    /\ UNCHANGED <<system, pc, results, user_email, last, n8n>>

\* server.shutdown(): the request is made; the caller then waits until
\* serve_forever has left its loop
shutdown ==
    /\ pc = "start" /\ auth.at \in {"found", "timeout", "except"}
    /\ auth' = [auth EXCEPT !.stop = TRUE,
                            !.at = CASE auth.at = "found" -> "found_wait"
                                     [] auth.at = "timeout" -> "timeout_wait"
                                     [] auth.at = "except" -> "except_wait"]
    /\ UNCHANGED <<system, pc, results, user_email, last, n8n>>

\* server.shutdown() has returned: email = auth_result['email']; return email
auth_return ==
    /\ pc = "start" /\ auth.at = "found_wait" /\ auth.serving = "stopped"
    /\ Leave("os_firewall", auth.email)

\* server.shutdown() has returned after the wait ran out, was cancelled, or
\* an exception was handled: sys.exit(1)
auth_exit ==
    /\ pc = "start" /\ auth.at \in {"timeout_wait", "except_wait"}
    /\ auth.serving = "stopped"
    /\ Leave("exit", user_email)

\* do_POST on /auth-complete with 'email' in data: auth_result['email'] is
\* stored; serve_forever accepts the request before it sees a shutdown request
do_POST ==
    /\ pc = "start" /\ auth.serving = "running" /\ ~auth.stop /\ ~auth.writing
    /\ auth.posts < MaxPosts
    /\ \E email \in PostedEmails :
          auth' = [auth EXCEPT !.email = email, !.writing = TRUE, !.posts = @ + 1]
    /\ UNCHANGED <<system, pc, results, user_email, last, n8n>>

\* do_POST: self.auth_result['complete'] = True
do_POST_complete ==
    /\ pc = "start" /\ auth.writing
    /\ auth' = [auth EXCEPT !.complete = TRUE, !.writing = FALSE]
    /\ UNCHANGED <<system, pc, results, user_email, last, n8n>>

\* serve_forever sees the shutdown request between two requests and returns
serve_forever ==
    /\ pc = "start" /\ auth.serving = "running" /\ auth.stop /\ ~auth.writing
    /\ auth' = [auth EXCEPT !.serving = "stopped", !.stop = FALSE]
    /\ UNCHANGED <<system, pc, results, user_email, last, n8n>>

\* the thread that called get_user_email
Foreground ==
    \/ auth_setup
    \/ auth_bind
    \/ auth_start
    \/ auth_open
    \/ auth_poll
    \/ auth_sleep
    \/ shutdown
    \/ auth_return
    \/ auth_exit

\* the serve_forever thread and its request handler
Listener ==
    \/ do_POST
    \/ do_POST_complete
    \/ serve_forever

\* mutant of RunCheck: a check's status is combined with the statuses the
\* report already holds
RunCheck_shared(key, ret, env, next) ==
    /\ last' = [key |-> key, ret |-> ret, obs |-> Observed(ret, env)]
    /\ IF ret.kind = "return"
       THEN /\ results' =
                 Assign(results, key,
                        [ret.value EXCEPT
                            !.status = @ /\ \A k \in Keys \ {key} :
                                              IsEmptyMsg(results[k].message)
                                              \/ results[k].status])
            /\ pc' = next
       ELSE results' = results /\ pc' = "error"
    /\ UNCHANGED <<system, user_email, auth, n8n>>

\* one statement self.results[key] = self.check_...(): the check's return is
\* stored, or its exception leaves run_all_checks
RunCheck(key, ret, env, next) ==
    /\ last' = [key |-> key, ret |-> ret, obs |-> Observed(ret, env)]
    /\ IF ret.kind = "return"
       THEN results' = Assign(results, key, ret.value) /\ pc' = next
       ELSE results' = results /\ pc' = "error"
    /\ UNCHANGED <<system, user_email, auth, n8n>>

run_os_firewall ==
    /\ pc = "os_firewall"
    /\ \E env \in Envs(Resources(system, "os_firewall")) :
          RunCheck("os_firewall", check_os_firewall(system, env), env, "disk_encryption")

run_disk_encryption ==
    /\ pc = "disk_encryption"
    /\ \E env \in Envs(Resources(system, "disk_encryption")) :
          RunCheck("disk_encryption", check_disk_encryption(system, env), env, "autolock")

run_autolock ==
    /\ pc = "autolock"
    /\ \E env \in Envs(Resources(system, "autolock")) :
          RunCheck("autolock", check_autolock(system, env), env, "guest_accounts")

run_guest_accounts ==
    /\ pc = "guest_accounts"
    /\ \E env \in Envs(Resources(system, "guest_accounts")) :
          RunCheck("guest_accounts", check_guest_accounts(system, env), env, "returned")

\* checker.display_results(): prints the report, reading each entry's status
\* and message and remediation through result.get; the locals of the last
\* check are gone once run_all_checks has returned
display_results ==
    /\ pc = "returned"
    /\ pc' = "displayed"
    /\ last' = NoCheck
    /\ UNCHANGED <<system, results, user_email, auth, n8n>>

\* the keys of self.results in the order __init__ inserted them
KeyOrder == <<"os_firewall", "disk_encryption", "autolock", "guest_accounts">>

\* result.get('remediation') is truthy
HasRemediation(result) == "remediation" \in DOMAIN result /\ result.remediation # ""

\* mutant of BuildPayload: any() in place of all()
BuildPayload_any(res, email) ==
    [user_email |-> email,
     security_checks |-> res,
     compliance_status |-> \E k \in DOMAIN res : res[k].status,
     failed_checks |-> SelectSeq(KeyOrder, LAMBDA k : k \in DOMAIN res /\ ~res[k].status),
     remediation_needed |->
        SelectSeq(KeyOrder,
                  LAMBDA k : k \in DOMAIN res /\ ~res[k].status /\ HasRemediation(res[k]))]

\* payload = {...}: the entries computed from self.results and user_email
BuildPayload(res, email) ==
    [user_email |-> email,
     security_checks |-> res,
     compliance_status |-> \A k \in DOMAIN res : res[k].status,
     failed_checks |-> SelectSeq(KeyOrder, LAMBDA k : k \in DOMAIN res /\ ~res[k].status),
     remediation_needed |->
        SelectSeq(KeyOrder,
                  LAMBDA k : k \in DOMAIN res /\ ~res[k].status /\ HasRemediation(res[k]))]

\* every subscript flat_params = {...} evaluates exists: no KeyError
FlatKeysPresent(payload) ==
    \A k \in Keys :
        /\ k \in DOMAIN payload.security_checks
        /\ {"status", "message", "remediation"} \subseteq DOMAIN payload.security_checks[k]

\* flat_params = {...}
Flatten(payload) ==
    LET sc == payload.security_checks
    IN  [user_email |-> payload.user_email,
         compliance_status |-> payload.compliance_status,
         failed_checks_count |-> Len(payload.failed_checks),
         failed_checks |-> payload.failed_checks,
         firewall_status |-> sc["os_firewall"].status,
         firewall_message |-> sc["os_firewall"].message,
         firewall_remediation |-> sc["os_firewall"].remediation,
         encryption_status |-> sc["disk_encryption"].status,
         encryption_message |-> sc["disk_encryption"].message,
         encryption_remediation |-> sc["disk_encryption"].remediation,
         autolock_status |-> sc["autolock"].status,
         autolock_message |-> sc["autolock"].message,
         autolock_remediation |-> sc["autolock"].remediation,
         guest_accounts_status |-> sc["guest_accounts"].status,
         guest_accounts_message |-> sc["guest_accounts"].message,
         guest_accounts_remediation |-> sc["guest_accounts"].remediation,
         remediation_needed |-> payload.remediation_needed]

\* how the webhook can answer one request
Responses == {"200", "404 not registered", "404", "RequestException"}

\* mutant of HttpRequests: any 404 leads to the next request, whatever its text
HttpRequests_any404(rs) ==
    LET all == <<[method |-> "POST", carries |-> "json"],
                 [method |-> "GET", carries |-> "params"],
                 [method |-> "GET", carries |-> "nothing"]>>
        n == IF rs[1] \notin {"404", "404 not registered"} THEN 1
             ELSE IF rs[2] \notin {"404", "404 not registered"} THEN 2 ELSE 3
    IN  [made |-> SubSeq(all, 1, n), got |-> SubSeq(rs, 1, n), answer |-> rs[n]]

\* the requests send_to_n8n makes when the webhook answers rs[1], rs[2], rs[3]
HttpRequests(rs) ==
    LET all == <<[method |-> "POST", carries |-> "json"],
                 [method |-> "GET", carries |-> "params"],
                 [method |-> "GET", carries |-> "nothing"]>>
        n == IF rs[1] # "404 not registered" THEN 1
             ELSE IF rs[2] # "404 not registered" THEN 2 ELSE 3
    IN  [made |-> SubSeq(all, 1, n), got |-> SubSeq(rs, 1, n), answer |-> rs[n]]

\* the body of send_to_n8n(user_email) for a configured webhook URL
SendToN8n(res, email, rs) ==
    LET payload == BuildPayload(res, email)
        http == HttpRequests(rs)
    IN  IF ~FlatKeysPresent(payload)
        THEN [called |-> TRUE, built |-> FALSE, aborted |-> TRUE, payload |-> payload,
              flat_params |-> <<>>, requests |-> <<>>, responses |-> <<>>,
              ret |-> FALSE, no_n8n |-> FALSE]
        ELSE [called |-> TRUE, built |-> TRUE, aborted |-> FALSE, payload |-> payload,
              flat_params |-> Flatten(payload), requests |-> http.made,
              responses |-> http.got, ret |-> (http.answer = "200"), no_n8n |-> FALSE]

\* main: if checker.n8n_webhook_url and not args.no_n8n:
\*           checker.send_to_n8n(user_email)
send_to_n8n ==
    /\ pc = "displayed"
    /\ pc' = "done"
    /\ \E no_n8n \in BOOLEAN :
          IF no_n8n THEN n8n' = [n8n EXCEPT !.no_n8n = TRUE]
          ELSE \E r1 \in Responses, r2 \in Responses, r3 \in Responses :
                  n8n' = SendToN8n(results, user_email, <<r1, r2, r3>>)
    /\ UNCHANGED <<system, results, user_email, auth, last>>

Next ==
    \/ Foreground
    \/ Listener
    \/ run_os_firewall
    \/ run_disk_encryption
    \/ run_autolock
    \/ run_guest_accounts
    \/ display_results
    \/ send_to_n8n

Spec == Init /\ [][Next]_vars

\* The authentication call alone, with both threads making progress: the
\* foreground thread runs whenever it can, and the listener finishes the
\* request it is handling and notices a shutdown request.
NextAuth == Foreground \/ Listener

SpecAuth ==
    /\ Init /\ [][NextAuth]_vars
    /\ WF_vars(Foreground)
    /\ WF_vars(do_POST_complete \/ serve_forever)

(***************************************************************************)
(* The checks run again on one SecurityChecker: the statements of          *)
(* run_all_checks executed a second time on the report they left.          *)
(***************************************************************************)
\* the check_* method whose return run_all_checks stores under key
CheckOf(key, sys, env) ==
    CASE key = "os_firewall" -> check_os_firewall(sys, env)
      [] key = "disk_encryption" -> check_disk_encryption(sys, env)
      [] key = "autolock" -> check_autolock(sys, env)
      [] key = "guest_accounts" -> check_guest_accounts(sys, env)

InitTwice ==
    /\ system \in Platforms
    /\ pc = "earlier"
    /\ results = InitialResults
    /\ user_email = <<>>
    /\ auth = AuthOver
    /\ last = NoCheck
    /\ n8n = NoSend

\* an earlier run of one check, on any outcomes, leaves its report
earlier_run ==
    /\ pc = "earlier"
    /\ \E key \in Keys : \E env \in Envs(Resources(system, key)) :
          RunCheck(key, CheckOf(key, system, env), env, "first")

\* the first of the two compared runs of that check, on any outcomes
first_run ==
    /\ pc = "first"
    /\ \E env \in Envs(Resources(system, last.key)) :
          RunCheck(last.key, CheckOf(last.key, system, env), env, "second")

\* the second run: every command the first run issued ends the same way
second_run ==
    /\ pc = "second"
    /\ \E env \in Envs(Resources(system, last.key)) :
          /\ \A i \in 1..Len(last.obs) : env[last.obs[i].cmd] = last.obs[i].oc
          /\ RunCheck(last.key, CheckOf(last.key, system, env), env, "twice")

NextTwice == earlier_run \/ first_run \/ second_run

SpecTwice == InitTwice /\ [][NextTwice]_vars

(***************************************************************************)
(* Properties.                                                             *)
(***************************************************************************)
\* a check has run and returned a Result
Returned == last.key # "none" /\ last.ret.kind = "return"

\* the command ended with exit status 0
Succeeded(o) == o.oc.kind = "exit" /\ o.oc.rc = 0

\* the command (or the read of the file) gave the check nothing to look at
Failed(o) ==
    \/ o.oc.kind \in {"timeout", "oserror", "absent", "unreadable"}
    \/ o.oc.kind = "exit" /\ o.oc.rc # 0

\* the check consulted something, and everything it consulted failed
AllFailed == last.obs # <<>> /\ \A i \in 1..Len(last.obs) : Failed(last.obs[i])

\* C1: after run_all_checks completes, on every platform and for every
\* combination of command outcomes, the report holds exactly the four keys
\* os_firewall, disk_encryption, autolock, guest_accounts, and every entry
\* has a non-empty message.
C1_ReportComplete ==
    pc = "returned" =>
        /\ DOMAIN results = Keys
        /\ \A k \in Keys : ~IsEmptyMsg(results[k].message)

C1_Witness ==
    /\ pc = "returned"
    /\ system = "linux"
    /\ results["os_firewall"].status
    /\ ~results["autolock"].status

\* C2 (as claimed): every Result a check returns carries a remediation field
\* that is the empty string if and only if status is true.
C2_RemediationIffFailing ==
    Returned =>
        /\ "remediation" \in DOMAIN last.ret.value
        /\ (last.ret.value.remediation = "" <=> last.ret.value.status)

\* C3: on a platform that is none of darwin, windows, linux, each check
\* returns without raising, with status false and the message
\* 'Unsupported platform: <name>', and runs no external command.
C3_UnsupportedPlatform ==
    (system \notin Supported /\ last.key # "none") =>
        /\ pc # "error"
        /\ last.ret.kind = "return"
        /\ last.ret.value.status = FALSE
        /\ last.ret.value.message = MsgS("Unsupported platform: {}", system)
        /\ last.obs = <<>>

C3_Witness ==
    /\ system = "freebsd"
    /\ pc = "returned"
    /\ last.key = "guest_accounts"
    /\ \A k \in Keys : results[k].message = MsgS("Unsupported platform: {}", "freebsd")

\* C4: on every supported platform and for every outcome of every command
\* (empty, malformed or non-numeric output included), each check returns a
\* Result and no exception escapes to run_all_checks.
C4_NoExceptionEscapes ==
    system \in Supported =>
        /\ pc # "error"
        /\ last.key # "none" =>
              /\ last.ret.kind = "return"
              /\ DOMAIN last.ret.value = {"status", "message", "remediation"}
              /\ last.ret.value.status \in BOOLEAN

C4_Witness ==
    /\ system = "linux"
    /\ last.key = "guest_accounts"
    /\ Len(last.obs) = 2
    /\ last.obs[2].oc = Exit(0, <<W("guest")>>)
    /\ last.ret.kind = "return"
    /\ last.ret.value.message = MsgS("Unable to verify guest account status: {}", "IndexError")

\* C5 (as claimed): a check that could observe nothing, because every command
\* it issued failed, returns status false; no check reports compliant from an
\* all-commands-failed run.
C5_AllFailedIsNotCompliant ==
    (Returned /\ AllFailed) => last.ret.value.status = FALSE

\* the messages that assert the property is disabled, not enabled, not
\* detected or not configured
ConfirmedNonCompliant ==
    { "macOS firewall is disabled", "UFW firewall is inactive",
      "No iptables firewall rules found", "firewalld is not running",
      "Windows Defender Firewall is disabled for: {}",
      "Windows Defender Firewall is not fully enabled",
      "FileVault encryption is not enabled", "BitLocker encryption is not enabled",
      "No disk encryption detected", "Screen lock not configured",
      "Screen lock not configured properly", "Guest account is enabled",
      "Guest account is active" }

\* C6 (as claimed): no check reports a confirmed non-compliant verdict when
\* every command it issued failed.
C6_AllFailedIsNotConfirmed ==
    (Returned /\ AllFailed) => last.ret.value.message.fmt \notin ConfirmedNonCompliant

\* the netsh output reports State ON in the section of the given profile
ProfileOn(out, profile) ==
    \E i \in 1..(Len(out) - 1) :
        /\ out[i] = W(profile)
        /\ out[i + 1] = W("Profile")
        /\ LET js == {j \in (i + 2)..(Len(out) - 1) : out[j] = W("State")}
           IN  /\ js # {}
               /\ out[(CHOOSE j \in js : \A x \in js : j <= x) + 1] = W("ON")

\* C7 (as claimed): Windows firewall, primary strategy: when the netsh query
\* succeeds the result is compliant only if each of the Domain, Private and
\* Public profiles reports State ON.
C7_AllProfilesOn ==
    ( /\ system = "windows"
      /\ last.key = "os_firewall"
      /\ Returned
      /\ Len(last.obs) = 1
      /\ Succeeded(last.obs[1])
      /\ last.ret.value.status ) =>
        \A profile \in {"Domain", "Private", "Public"} :
            ProfileOn(last.obs[1].oc.stdout, profile)

\* the idle timeout the autolock check obtained, in seconds, and the strategy
\* that obtained it
AutolockReading ==
    LET obs == last.obs
        n == Len(obs)
        out(i) == strip(obs[i].oc.stdout)
        none == [seen |-> FALSE, seconds |-> 0, strategy |-> "none"]
        seen(v, s) == [seen |-> TRUE, seconds |-> v, strategy |-> s]
    IN  IF last.key # "autolock" \/ n = 0 THEN none
        ELSE IF system = "darwin"
        THEN IF n = 1 /\ Succeeded(obs[1])
                /\ SearchWordsNum(out(1), <<"displaysleep">>).ok
             THEN seen(60 * SearchWordsNum(out(1), <<"displaysleep">>).v, "pmset")
             ELSE IF n = 2 /\ Succeeded(obs[2]) /\ int(out(2)).ok
             THEN seen(int(out(2)).v, "screensaver")
             ELSE none
        ELSE IF system = "windows"
        THEN IF n = 1 /\ Succeeded(obs[1])
                /\ SearchWordsNum(out(1), <<"ScreenSaveTimeOut", "REG_SZ">>).ok
             THEN seen(SearchWordsNum(out(1), <<"ScreenSaveTimeOut", "REG_SZ">>).v,
                       "registry")
             ELSE IF n = 2 /\ Succeeded(obs[2])
                     /\ SearchWordsHex(out(2),
                            <<"Current", "AC", "Power", "Setting", "Index:">>).ok
             THEN seen(HexToInt(SearchWordsHex(out(2),
                            <<"Current", "AC", "Power", "Setting", "Index:">>).d),
                       "powercfg")
             ELSE none
        ELSE IF system = "linux"
        THEN IF n = 2 /\ obs[2].cmd = Cmd.GsDelay /\ Succeeded(obs[2]) /\ int(out(2)).ok
             THEN seen(int(out(2)).v, "gnome")
             ELSE IF obs[n].cmd = KdeConfig /\ obs[n].oc.kind = "file"
                     /\ SearchKeyNum(obs[n].oc.stdout, "Timeout=").ok
             THEN seen(60 * SearchKeyNum(obs[n].oc.stdout, "Timeout=").v, "kde")
             ELSE none
        ELSE none

\* C8 (as claimed): in every autolock strategy the Result is compliant if
\* and only if the idle timeout obtained, in seconds, is at most 600.
C8_CompliantIffWithinLimit ==
    (Returned /\ AutolockReading.seen) =>
        (last.ret.value.status <=> AutolockReading.seconds <= 600)

\* C8 (amended): in every autolock strategy that obtains a timeout value the
\* Result is compliant if and only if that value, in seconds, is at most 600;
\* the Windows power-setting fallback requires in addition that it is not 0.
C8_CompliantIffWithinLimitNonZero ==
    (Returned /\ AutolockReading.seen) =>
        (last.ret.value.status <=>
            /\ AutolockReading.seconds <= 600
            /\ (AutolockReading.strategy = "powercfg" => AutolockReading.seconds > 0))

C8_Witness ==
    /\ Returned
    /\ AutolockReading.seen
    /\ AutolockReading.strategy = "powercfg"
    /\ AutolockReading.seconds = 0
    /\ ~last.ret.value.status

\* C9: macOS autolock fallback: when pmset yields no displaysleep value and
\* the screensaver idleTime read succeeds with t seconds, status is true iff
\* t <= 600 and the message shows floor(t / 60) minutes; 900 gives
\* non-compliant with 15, 600 gives compliant with 10.
C9_MacIdleTimeFallback ==
    ( /\ system = "darwin"
      /\ last.key = "autolock"
      /\ Len(last.obs) = 2
      /\ Succeeded(last.obs[2])
      /\ int(last.obs[2].oc.stdout).ok ) =>
        LET t == int(last.obs[2].oc.stdout).v
            r == last.ret.value
        IN  /\ last.ret.kind = "return"
            /\ r.status <=> t <= 600
            /\ r.message.fmt = IF t <= 600
                               THEN "Screen saver timeout: {} minutes"
                               ELSE "Screen saver timeout too long: {} minutes"
            /\ Len(r.message.num) = 1
            /\ 60 * r.message.num[1] <= t
            /\ t < 60 * (r.message.num[1] + 1)
            /\ t = 900 => (~r.status /\ r.message.num = <<15>>)
            /\ t = 600 => (r.status /\ r.message.num = <<10>>)

C9_Witness ==
    /\ system = "darwin"
    /\ last.key = "autolock"
    /\ Len(last.obs) = 2
    /\ last.obs[2].oc = Exit(0, <<N(900)>>)
    /\ last.ret.value = Result(FALSE, MsgN("Screen saver timeout too long: {} minutes", 15),
                               Rem.MacScreenSaver)

\* the value a powercfg output shows as the AC setting index, if it shows one
VideoIdleShown(out) ==
    LET shown == {v \in SecondsReadings \cup {1} :
                    \E i \in 1..Len(out) :
                        /\ out[i] = X(ToHex(v, MaxHexLen))
                        /\ i > 5
                        /\ SubSeq(out, i - 5, i - 1)
                             = <<W("Current"), W("AC"), W("Power"), W("Setting"), W("Index:")>>}
    IN  shown

\* C10: Windows autolock power-setting fallback: a video-idle value of 0 is
\* never reported compliant; the fallback returns compliant only for a value v
\* with 0 < v <= 600, and for any other value the check returns the
\* 'Screen lock not configured properly' non-compliant Result.
C10_WinVideoIdleFallback ==
    ( /\ system = "windows"
      /\ last.key = "autolock"
      /\ Len(last.obs) = 2
      /\ last.obs[2].oc.kind # "oserror" ) =>
        LET shown == IF Succeeded(last.obs[2])
                     THEN VideoIdleShown(last.obs[2].oc.stdout)
                     ELSE {}
            r == last.ret.value
        IN  /\ last.ret.kind = "return"
            /\ r.status <=> \E v \in shown : 0 < v /\ v <= 600
            /\ r.status =>
                 \E v \in shown : r.message = MsgN("Display timeout: {} minutes", v \div 60)
            /\ ~r.status =>
                 r = Result(FALSE, Msg("Screen lock not configured properly"),
                            Rem.WinLockConfigure)

C10_Witness ==
    /\ system = "windows"
    /\ last.key = "autolock"
    /\ Len(last.obs) = 2
    /\ Succeeded(last.obs[2])
    /\ VideoIdleShown(last.obs[2].oc.stdout) = {0}
    /\ last.ret.value.message = Msg("Screen lock not configured properly")

\* the Linux guest-account check ran both getent commands
LinuxGuestBoth ==
    /\ Returned /\ system = "linux" /\ last.key = "guest_accounts"
    /\ Len(last.obs) = 2
    /\ Succeeded(last.obs[1])
    /\ last.obs[2].oc.kind \in {"exit", "timeout"}

\* getent shadow guest succeeded with a non-empty entry
ShadowReadable == Succeeded(last.obs[2]) /\ last.obs[2].oc.stdout # <<>>

\* the second ':'-separated field of the shadow entry starts with '!' or '*'
PasswordFieldLocked ==
    LET fields == split(last.obs[2].oc.stdout, W(":"))
    IN  Len(fields) >= 2 /\ (startswith(fields[2], "!") \/ startswith(fields[2], "*"))

\* the last field of the passwd entry
LoginShell == last.obs[1].oc.stdout[Len(last.obs[1].oc.stdout)].s

C13_ComplianceSummary ==
    n8n.called =>
        LET p == n8n.payload
            failing == {k \in Keys : ~results[k].status}
        IN  /\ p.compliance_status <=> (\A k \in Keys : results[k].status)
            /\ {p.failed_checks[i] : i \in 1..Len(p.failed_checks)} = failing
            /\ Len(p.failed_checks) = Cardinality(failing)
            /\ p.compliance_status <=> (p.failed_checks = <<>>)
            /\ n8n.built =>
                  /\ n8n.flat_params.compliance_status = p.compliance_status
                  /\ n8n.flat_params.failed_checks_count = Cardinality(failing)

C13_Witness ==
    /\ n8n.called
    /\ n8n.payload.failed_checks = <<"disk_encryption", "guest_accounts">>
    /\ ~n8n.payload.compliance_status

\* C14 (as claimed): for every report run_all_checks can produce, on
\* supported and unsupported platforms alike, send_to_n8n builds the
\* flattened payload and reaches the HTTP request.
C14_PayloadAlwaysBuilt ==
    n8n.called => (n8n.built /\ ~n8n.aborted /\ n8n.requests # <<>>)

\* C15 (as claimed): in every run that reaches send_to_n8n, the email passed
\* to it satisfies validate_email.
C15_OnlyValidatedEmailSent ==
    n8n.called => validate_email(n8n.payload.user_email)

\* C16: a command that exceeds the 30-second timeout makes run_command
\* return success false without raising, and the check that issued it
\* returns the same Result, after the same commands, as it does when that
\* command exits non-zero instead (whatever it printed).
C16_TimeoutIsFailure ==
    (Returned /\ system \in Supported) =>
        \A i \in 1..Len(last.obs) :
            last.obs[i].oc.kind = "timeout" =>
                LET cmds == Resources(system, last.key)
                    r == run_command(last.obs[i].cmd, TimedOut)
                    Seen(c) == {j \in 1..Len(last.obs) : last.obs[j].cmd = c}
                    Swapped(o) ==
                        [c \in {cmds[j] : j \in 1..Len(cmds)} |->
                            IF c = last.obs[i].cmd THEN Exit(1, o)
                            ELSE IF Seen(c) # {}
                            THEN last.obs[CHOOSE j \in Seen(c) : TRUE].oc
                            ELSE IF c = KdeConfig
                            THEN [kind |-> "absent", rc |-> 0, stdout |-> <<>>]
                            ELSE TimedOut]
                IN  /\ ~r.raised /\ ~r.success
                    /\ \A o \in FailStdouts(last.obs[i].cmd) :
                          CheckOf(last.key, system, Swapped(o)) = last.ret

C16_Witness ==
    /\ Returned /\ system = "linux" /\ last.key = "os_firewall"
    /\ Len(last.obs) = 3
    /\ last.obs[1].oc.kind = "timeout"
    /\ last.obs[2].oc.kind = "timeout"
    /\ last.ret.value.status

\* C17 (as claimed): whenever the netsh strategy cannot parse the profile
\* states, also when netsh succeeds with an output that has no State
\* marker, the PowerShell query is run; the result is then compliant iff its
\* output holds at least 3 'True', and the unable-to-check Result is
\* returned if that query fails too.
C17_PowerShellOnParseFailure ==
    LET netsh == last.obs[1]
        unparsed == \/ ~Succeeded(netsh)
                    \/ ~Contains(netsh.oc.stdout, <<"State">>)
    IN  (/\ Returned /\ system = "windows" /\ last.key = "os_firewall"
         /\ netsh.oc.kind \in {"exit", "timeout"}
         /\ unparsed) =>
            /\ Len(last.obs) = 2
            /\ last.obs[2].cmd = Cmd.PsProfile
            /\ \/ last.obs[2].oc.kind = "oserror"
               \/ IF Succeeded(last.obs[2])
                  THEN last.ret.value.status <=> Count(last.obs[2].oc.stdout, "True") >= 3
                  ELSE last.ret.value = Result(FALSE, Msg("Unable to check firewall status"),
                                               Rem.WinFirewall)

\* C18: macOS firewall. A successfully read numeric global state decides
\* alone: 1 or 2 is compliant, any other number is not, and the daemon check
\* is not consulted. When the read fails or is not numeric, pgrep runs: a
\* successful non-empty result is compliant, anything else gives status
\* false with the 'insufficient permissions' message, not 'firewall is
\* disabled'.
C18_MacFirewall ==
    LET read == last.obs[1]
        numeric == /\ Succeeded(read)
                   /\ Len(read.oc.stdout) = 1
                   /\ read.oc.stdout[1].k = "n"
    IN  (/\ Returned /\ system = "darwin" /\ last.key = "os_firewall"
         /\ read.oc.kind \in {"exit", "timeout"}) =>
            IF numeric
            THEN /\ Len(last.obs) = 1
                 /\ last.ret.value.status <=> read.oc.stdout[1].n \in {1, 2}
            ELSE /\ Len(last.obs) = 2
                 /\ last.obs[2].cmd = Cmd.PgrepFw
                 /\ \/ last.obs[2].oc.kind = "oserror"
                    \/ IF Succeeded(last.obs[2]) /\ last.obs[2].oc.stdout # <<>>
                       THEN last.ret.value.status
                       ELSE /\ ~last.ret.value.status
                            /\ last.ret.value.message =
                                 Msg("Unable to verify firewall status (insufficient permissions)")
                            /\ last.ret.value.message # Msg("macOS firewall is disabled")

C18_Witness ==
    /\ Returned /\ system = "darwin" /\ last.key = "os_firewall"
    /\ Len(last.obs) = 2
    /\ Succeeded(last.obs[1]) /\ last.obs[1].oc.stdout = <<W("garbage")>>
    /\ Failed(last.obs[2])
    /\ last.ret.value.message =
         Msg("Unable to verify firewall status (insufficient permissions)")

\* C19: Linux firewall. UFW is asked first and an active / inactive status
\* decides; iptables is asked only if UFW gave no such verdict, and a
\* successful listing decides (no line besides chain and column headers is
\* a firm non-compliant Result); firewalld is asked only if the iptables
\* command failed; the 'No firewall found or unable to check status' Result
\* with the install commands is returned exactly when all three yield
\* nothing.
C19_LinuxFirewallOrder ==
    LET obs == last.obs
        ufw == obs[1].oc
        ufwActive == Succeeded(obs[1]) /\ ufw.stdout = <<W("Status:"), W("active")>>
        ufwInactive == Succeeded(obs[1]) /\ ufw.stdout = <<W("Status:"), W("inactive")>>
        headersOnly == obs[2].oc.stdout \in {<<>>, IptablesHeader}
        nothing == Result(FALSE, Msg("No firewall found or unable to check status"),
                          Rem.LinuxFirewallInstall)
    IN  (/\ Returned /\ system = "linux" /\ last.key = "os_firewall"
         /\ \A i \in 1..Len(obs) : obs[i].oc.kind \in {"exit", "timeout"}) =>
            /\ obs[1].cmd = Cmd.Ufw
            /\ ufwActive => (Len(obs) = 1 /\ last.ret.value.status)
            /\ ufwInactive => (Len(obs) = 1 /\ ~last.ret.value.status)
            /\ Len(obs) >= 2 <=> ~(ufwActive \/ ufwInactive)
            /\ Len(obs) >= 2 =>
                  /\ obs[2].cmd = Cmd.Iptables
                  /\ Len(obs) = 3 <=> ~Succeeded(obs[2])
                  /\ Succeeded(obs[2]) =>
                        IF headersOnly
                        THEN last.ret.value =
                                Result(FALSE, Msg("No iptables firewall rules found"),
                                       Rem.Iptables)
                        ELSE last.ret.value.status
            /\ Len(obs) = 3 => obs[3].cmd = Cmd.Firewalld
            /\ last.ret.value = nothing <=> (Len(obs) = 3 /\ ~Succeeded(obs[3]))

C19_Witness ==
    /\ Returned /\ system = "linux" /\ last.key = "os_firewall"
    /\ Len(last.obs) = 2
    /\ Succeeded(last.obs[1]) /\ last.obs[1].oc.stdout = <<W("garbage")>>
    /\ Succeeded(last.obs[2]) /\ last.obs[2].oc.stdout = IptablesHeader
    /\ ~last.ret.value.status

\* C20: disk encryption on macOS and on Windows is one command with no
\* fallback; status is true iff that command succeeded and its output holds
\* the marker ('FileVault is On' on macOS, 'Protection On' on Windows).
C20_SingleStrategyEncryption ==
    LET out == last.obs[1].oc.stdout
        marker == IF system = "darwin"
                  THEN out = <<W("FileVault"), W("is"), W("On.")>>
                  ELSE \E i \in 1..(Len(out) - 1) :
                          out[i] = W("Protection") /\ out[i + 1] = W("On")
    IN  (Returned /\ system \in {"darwin", "windows"} /\ last.key = "disk_encryption") =>
            /\ Len(last.obs) = 1
            /\ last.obs[1].cmd = (IF system = "darwin" THEN Cmd.Fdesetup ELSE Cmd.ManageBde)
            /\ last.ret.value.status <=> (Succeeded(last.obs[1]) /\ marker)

C20_Witness ==
    /\ Returned /\ system = "windows" /\ last.key = "disk_encryption"
    /\ Succeeded(last.obs[1])
    /\ last.obs[1].oc.stdout = <<W("Protection"), W("Status:"), W("Protection"), W("Off")>>
    /\ ~last.ret.value.status

\* C21: Linux disk encryption is compliant iff the block-device listing
\* succeeds and shows a crypto_LUKS type, or the mounts listing succeeds and
\* shows a device-mapper path and the device-mapper table query succeeds and
\* shows a crypt target; the table is queried only when the first layer
\* found nothing and the mounts show a device-mapper path; every other
\* Result is non-compliant with the remediation that warns of data loss.
C21_LinuxEncryption ==
    LET obs == last.obs
        luks == /\ Succeeded(obs[1])
                /\ obs[1].oc.stdout = <<W("NAME"), W("FSTYPE"), NL, W("sda1"), W("crypto_LUKS")>>
        mapper == /\ Len(obs) >= 2 /\ Succeeded(obs[2])
                  /\ obs[2].oc.stdout \in {<<W("/dev/mapper/root"), W("/"), W("ext4")>>,
                                             <<W("dm-0"), W("/"), W("ext4")>>}
        crypt == /\ Len(obs) = 3 /\ Succeeded(obs[3])
                 /\ obs[3].oc.stdout = <<W("root:"), N(0), N(100), W("crypt"), W("aes")>>
    IN  (Returned /\ system = "linux" /\ last.key = "disk_encryption") =>
            /\ obs[1].cmd = Cmd.Lsblk
            /\ Len(obs) >= 2 => obs[2].cmd = Cmd.Mounts
            /\ last.ret.value.status <=> (luks \/ (mapper /\ crypt))
            /\ (\E i \in 1..Len(obs) : obs[i].cmd = Cmd.Dmsetup) => (~luks /\ mapper)
            /\ ~last.ret.value.status => last.ret.value.remediation = Rem.Luks

C21_Witness ==
    /\ Returned /\ system = "linux" /\ last.key = "disk_encryption"
    /\ Len(last.obs) = 3
    /\ Succeeded(last.obs[1]) /\ Succeeded(last.obs[2]) /\ Succeeded(last.obs[3])
    /\ last.obs[2].oc.stdout = <<W("dm-0"), W("/"), W("ext4")>>
    /\ last.obs[3].oc.stdout = <<W("root:"), N(0), N(100), W("linear")>>
    /\ last.ret.value = Result(FALSE, Msg("No disk encryption detected"), Rem.Luks)

\* C22: Linux autolock, primary strategy. It returns compliant only when the
\* idle-activation flag reads enabled and the idle delay is at most 600
\* seconds; with activation enabled and a delay above 600 it returns
\* non-compliant without consulting the fallback; with activation disabled
\* or unreadable the idle delay is not asked for and no compliant Result
\* comes from the primary strategy.
C22_LinuxAutolockPrimary ==
    LET obs == last.obs
        enabled == /\ Succeeded(obs[1])
                   /\ obs[1].oc.stdout \in {<<W("true")>>, <<W("True")>>}
        delayRead == /\ Len(obs) >= 2 /\ obs[2].cmd = Cmd.GsDelay /\ Succeeded(obs[2])
                     /\ Len(obs[2].oc.stdout) = 1 /\ obs[2].oc.stdout[1].k = "n"
        delay == obs[2].oc.stdout[1].n
        fallback == \E i \in 1..Len(obs) : obs[i].cmd = KdeConfig
    IN  (Returned /\ system = "linux" /\ last.key = "autolock") =>
            /\ obs[1].cmd = Cmd.GsActivation
            /\ (last.ret.value.status /\ ~fallback) =>
                  (enabled /\ delayRead /\ delay <= LimitSeconds)
            /\ (enabled /\ delayRead /\ delay > LimitSeconds) =>
                  (~last.ret.value.status /\ ~fallback)
            /\ ~enabled =>
                  /\ \A i \in 1..Len(obs) : obs[i].cmd # Cmd.GsDelay
                  /\ last.ret.value.status => fallback

C22_Witness ==
    /\ Returned /\ system = "linux" /\ last.key = "autolock"
    /\ Len(last.obs) = 2
    /\ last.obs[1].oc = Exit(0, <<W("True")>>)
    /\ last.obs[2].oc = Exit(0, <<N(LimitSeconds + 1)>>)
    /\ last.ret.value =
         Result(FALSE, MsgN("Screen lock timeout too long: {} minutes", 10), Rem.GnomeDelay)

\* C23: Linux autolock, fallback. Whenever the primary strategy yields no
\* verdict (the activation flag unreadable or not enabled, or the idle delay
\* unreadable or not an integer), ~/.config/kscreenlockerrc is consulted and
\* its Timeout, in minutes, is compliant iff at most 10; if no mechanism
\* yields a value the Result is 'Screen lock not configured'.
C23_LinuxAutolockFallback ==
    LET obs == last.obs
        enabled == /\ Succeeded(obs[1])
                   /\ obs[1].oc.stdout \in {<<W("true")>>, <<W("True")>>}
        delayRead == /\ Len(obs) >= 2 /\ obs[2].cmd = Cmd.GsDelay /\ Succeeded(obs[2])
                     /\ Len(obs[2].oc.stdout) = 1 /\ obs[2].oc.stdout[1].k = "n"
        kde == obs[Len(obs)]
        hasTimeout == /\ kde.oc.kind = "file" /\ Len(kde.oc.stdout) = 3
                      /\ kde.oc.stdout[3].k = "kv"
        minutes == kde.oc.stdout[3].n
    IN  (/\ Returned /\ system = "linux" /\ last.key = "autolock"
         /\ \A i \in 1..Len(obs) : obs[i].oc.kind # "oserror"
         /\ ~(enabled /\ delayRead)) =>
            /\ kde.cmd = KdeConfig
            /\ IF hasTimeout
               THEN /\ last.ret.value.status <=> minutes <= LimitMinutes
                    /\ last.ret.value.message.num = <<minutes>>
               ELSE last.ret.value =
                       Result(FALSE, Msg("Screen lock not configured"),
                              Rem.LinuxLockConfigure)

\* C24: macOS guest account. A successful direct lookup of the Guest record
\* gives non-compliant 'Guest account is enabled'; the user listing is
\* consulted only when the direct lookup fails, and a 'Guest' entry in it
\* gives non-compliant 'Guest account may be enabled'; the Result is
\* compliant only when neither check found the Guest record.
C24_MacGuest ==
    LET obs == last.obs
        listed == /\ Len(obs) = 2 /\ Succeeded(obs[2])
                  /\ obs[2].oc.stdout = <<W("root"), NL, W("Guest"), NL, W("alice")>>
    IN  (Returned /\ system = "darwin" /\ last.key = "guest_accounts") =>
            /\ obs[1].cmd = Cmd.DsclRead
            /\ Succeeded(obs[1]) =>
                  /\ Len(obs) = 1
                  /\ last.ret.value =
                        Result(FALSE, Msg("Guest account is enabled"), Rem.MacGuestDisable)
            /\ Len(obs) = 2 => (obs[2].cmd = Cmd.DsclList /\ Failed(obs[1]))
            /\ listed =>
                  last.ret.value =
                     Result(FALSE, Msg("Guest account may be enabled"), Rem.MacGuestVerify)
            /\ last.ret.value.status => (Failed(obs[1]) /\ Len(obs) = 2 /\ ~listed)

C24_Witness ==
    /\ Returned /\ system = "darwin" /\ last.key = "guest_accounts"
    /\ Len(last.obs) = 2
    /\ last.obs[1].oc = Exit(1, <<>>)
    /\ last.obs[2].oc = Exit(0, <<W("root"), NL, W("Guest"), NL, W("alice")>>)
    /\ last.ret.value.message = Msg("Guest account may be enabled")

\* C25: Windows guest account. When 'net user guest' succeeds the Result is
\* compliant iff the account's active flag reads 'No'; an account whose
\* active flag reads 'Yes' is non-compliant whatever the other fields of the
\* response contain; a query that fails is treated as account absent and
\* compliant.
C25_WinGuestActiveFlag ==
    LET obs == last.obs
        out == obs[1].oc.stdout
        activeNo == \E i \in 1..(Len(out) - 2) :
                       out[i] = W("Account") /\ out[i + 1] = W("active")
                       /\ out[i + 2] = W("No")
    IN  (/\ Returned /\ system = "windows" /\ last.key = "guest_accounts"
         /\ obs[1].oc.kind # "oserror") =>
            /\ Len(obs) = 1 /\ obs[1].cmd = Cmd.NetUser
            /\ IF Succeeded(obs[1])
               THEN last.ret.value.status <=> activeNo
               ELSE last.ret.value.status

\* C26: run_all_checks runs the four probes strictly one after another in
\* the order firewall, disk encryption, autolock, guest accounts, each
\* finishing before the next starts; a probe consults only its own commands,
\* leaves the other entries of the report alone, and its Result is the one
\* its own commands' outcomes determine, whatever the report already holds.
C26_SequentialIndependentProbes ==
    [][LET Order(i) == KeyOrder[i]
           Before(i) == IF i = 1 THEN "start" ELSE KeyOrder[i - 1]
           After(i) == IF i = Len(KeyOrder) THEN "returned" ELSE KeyOrder[i + 1]
           Own(i) == {Resources(system, Order(i))[j] :
                         j \in 1..Len(Resources(system, Order(i)))}
           OwnEnv(obs) ==
               [c \in {obs[j].cmd : j \in 1..Len(obs)} |->
                   (CHOOSE o \in {obs[j] : j \in 1..Len(obs)} : o.cmd = c).oc]
       IN  /\ \A i \in 1..Len(KeyOrder) :
                 /\ pc' = Order(i) => pc = Before(i)
                 /\ pc = Order(i) =>
                       /\ pc' = After(i)
                       /\ last'.key = Order(i)
                       /\ {last'.obs[j].cmd : j \in 1..Len(last'.obs)} \subseteq Own(i)
                       /\ last'.ret = CheckOf(Order(i), system, OwnEnv(last'.obs))
                       /\ results'[Order(i)] = last'.ret.value
                       /\ \A k \in Keys \ {Order(i)} : results'[k] = results[k]
           /\ pc \notin Keys => results' = results]_vars

C26_Witness ==
    /\ pc = "returned" /\ system = "linux" /\ last.key = "guest_accounts"
    /\ results["os_firewall"].status
    /\ ~results["disk_encryption"].status
    /\ results["autolock"].status
    /\ ~results["guest_accounts"].status

\* C27: the authentication call always terminates. Under every interleaving
\* of the callback listener and the polling foreground it either returns an
\* email after the callback stored one, or ends the program with failure
\* once the wait has elapsed (or on cancel or error); it never blocks
\* forever.
C27_AuthenticationTerminates == <>(pc \in {"os_firewall", "exit"})

\* C28: under every interleaving of callback POSTs with the polling loop,
\* the email _authenticate_with_google returns is non-empty and is the value
\* the loop observed when it saw the completion flag set; a further POST
\* arriving between the loop's check and its read of auth_result cannot
\* change or empty it.
C28_ReturnedEmailIsObserved ==
    [][(pc = "start" /\ pc' = "os_firewall") =>
          (user_email' # <<>> /\ user_email' = auth.seen)]_vars

\* C29: send_to_n8n issues at most three HTTP requests, in the order POST,
\* GET with query parameters, bare GET; each later request is issued only
\* if the previous response was a 404 containing 'not registered'; it
\* returns true iff the last response received has status 200, and returns
\* false, without raising, on a network error.
C29_RequestOrder ==
    n8n.called =>
        LET made == n8n.requests
            got == n8n.responses
        IN  /\ pc = "done"
            /\ Len(made) <= 3 /\ Len(got) = Len(made)
            /\ \A i \in 1..Len(made) :
                  made[i] = CASE i = 1 -> [method |-> "POST", carries |-> "json"]
                              [] i = 2 -> [method |-> "GET", carries |-> "params"]
                              [] i = 3 -> [method |-> "GET", carries |-> "nothing"]
            /\ \A i \in 2..Len(made) : got[i - 1] = "404 not registered"
            /\ n8n.ret <=> (got # <<>> /\ got[Len(got)] = "200")
            /\ (\E i \in 1..Len(got) : got[i] = "RequestException") => ~n8n.ret

C29_Witness ==
    /\ n8n.called
    /\ Len(n8n.requests) = 3
    /\ n8n.responses = <<"404 not registered", "404 not registered", "200">>
    /\ n8n.ret

\* C30: authentication strictly precedes the checks and the delivery. No
\* probe command is run and no webhook request is made unless authentication
\* has returned an email; a failed or timed-out authentication ends the run
\* with no check executed and nothing sent; the results are displayed before
\* they are sent; and nothing is sent when --no-n8n is given.
C30_AuthenticationPrecedesChecks ==
    /\ (pc \notin {"start", "exit"} \/ last.key # "none" \/ n8n.called) =>
          (user_email # <<>> /\ auth = AuthOver)
    /\ pc = "exit" => (results = InitialResults /\ last = NoCheck /\ n8n = NoSend)
    /\ pc = "start" => (results = InitialResults /\ last = NoCheck /\ n8n = NoSend)
    /\ n8n # NoSend => pc = "done"
    /\ n8n.no_n8n => (~n8n.called /\ n8n.requests = <<>>)

=============================================================================
